---- MODULE Spec2Model ----
(***************************************************************************)
(* Model of latte's scripting core (src/scripting): the partition          *)
(* row-distribution engine of row_distribution.rs.                         *)
(*                                                                         *)
(* Representation choices.                                                 *)
(*  - A Rust string is a sequence of one-character strings, so that        *)
(*    split, replace, parse and format are computed character by           *)
(*    character.                                                           *)
(*  - A decimal of the group spec is an exact rational <<n, d>> (d > 0,    *)
(*    lowest terms) with at most three fractional digits; on those the     *)
(*    shortest round-trip text printed by Rust's Display is the canonical  *)
(*    decimal.  The f64 it parses to, and every f64 product, quotient and  *)
(*    sum of the sizing, is a binary64 value sign * m * 2^e computed with  *)
(*    round-to-nearest-even, as the hardware does.                         *)
(*  - u64 arithmetic: a subtraction below zero is an overflow.  A build    *)
(*    with overflow checks panics; one without wraps.  The build is a      *)
(*    parameter (checked) of the operators that can overflow.              *)
(***************************************************************************)
EXTENDS Integers, Sequences, FiniteSets, TLC

\* ------------------------------------------------------------------------
\* Characters and strings
\* ------------------------------------------------------------------------

DigitChars == {"0", "1", "2", "3", "4", "5", "6", "7", "8", "9"}

DigitVal(c) ==
    CASE c = "0" -> 0 [] c = "1" -> 1 [] c = "2" -> 2 [] c = "3" -> 3
      [] c = "4" -> 4 [] c = "5" -> 5 [] c = "6" -> 6 [] c = "7" -> 7
      [] c = "8" -> 8 [] c = "9" -> 9

DigitChar(v) ==
    CASE v = 0 -> "0" [] v = 1 -> "1" [] v = 2 -> "2" [] v = 3 -> "3"
      [] v = 4 -> "4" [] v = 5 -> "5" [] v = 6 -> "6" [] v = 7 -> "7"
      [] v = 8 -> "8" [] v = 9 -> "9"

\* str::replace(" ", "")
RemoveSpaces(s) == SelectSeq(s, LAMBDA c : c # " ")

\* str::split(sep): the pieces between the separators, empty pieces kept
RECURSIVE Split(_, _)
Split(s, sep) ==
    IF \A i \in 1..Len(s) : s[i] # sep
    THEN << s >>
    ELSE LET i == CHOOSE k \in 1..Len(s) :
                     s[k] = sep /\ \A j \in 1..(k - 1) : s[j] # sep
         IN  << SubSeq(s, 1, i - 1) >> \o Split(SubSeq(s, i + 1, Len(s)), sep)

\* ------------------------------------------------------------------------
\* Exact rationals standing for f64 values
\* ------------------------------------------------------------------------

Abs(x) == IF x < 0 THEN 0 - x ELSE x

\* gcd of row_distribution.rs (also used to keep rationals in lowest terms)
RECURSIVE gcd(_, _)
gcd(n1, n2) == IF n2 = 0 THEN n1 ELSE gcd(n2, n1 % n2)

Rat(n, d) ==
    LET g == gcd(Abs(n), Abs(d))
        s == IF d < 0 THEN 0 - 1 ELSE 1
    IN  << (s * n) \div g, (s * d) \div g >>

RAdd(a, b) == Rat(a[1] * b[2] + b[1] * a[2], a[2] * b[2])
RSub(a, b) == Rat(a[1] * b[2] - b[1] * a[2], a[2] * b[2])
RMul(a, b) == Rat(a[1] * b[1], a[2] * b[2])
RInt(i)    == << i, 1 >>
RLess(a, b) == a[1] * b[2] < b[1] * a[2]
RAbs(a)    == << Abs(a[1]), a[2] >>

\* `x as u64` for a finite f64: truncation, negatives saturate to 0
AsU64(a) == IF a[1] <= 0 THEN 0 ELSE a[1] \div a[2]

Pow10(k) == CASE k = 0 -> 1 [] k = 1 -> 10 [] k = 2 -> 100 [] k = 3 -> 1000

RECURSIVE DigitsVal(_)
DigitsVal(s) ==
    IF s = << >> THEN 0
    ELSE 10 * DigitsVal(SubSeq(s, 1, Len(s) - 1)) + DigitVal(s[Len(s)])

ParseError == << "ParseFloatError" >>

\* str::parse::<f64>() on the alphabet of the model: an optional sign, then
\* digits with at most one '.', at least one digit in all.  Anything else
\* (letters, ':', an empty string, a lone '.') is a ParseFloatError.
ParseF64(s) ==
    LET signed == Len(s) > 0 /\ s[1] \in {"-", "+"}
        neg    == Len(s) > 0 /\ s[1] = "-"
        body   == IF signed THEN Tail(s) ELSE s
        dots   == {i \in 1..Len(body) : body[i] = "."}
        dot    == IF dots = {} THEN Len(body) + 1 ELSE CHOOSE i \in dots : TRUE
        ip     == SubSeq(body, 1, dot - 1)
        fp     == SubSeq(body, dot + 1, Len(body))
        wellformed ==
            /\ \A i \in 1..Len(body) : body[i] \in DigitChars \cup {"."}
            /\ Cardinality(dots) <= 1
            /\ Len(ip) + Len(fp) >= 1
            /\ Len(fp) <= 3
        mag    == DigitsVal(ip) * Pow10(Len(fp)) + DigitsVal(fp)
    IN  IF ~wellformed THEN ParseError
        ELSE Rat(IF neg THEN 0 - mag ELSE mag, Pow10(Len(fp)))

RECURSIVE NatToStr(_)
NatToStr(n) ==
    IF n < 10 THEN << DigitChar(n) >>
    ELSE NatToStr(n \div 10) \o << DigitChar(n % 10) >>

RECURSIVE StripTrailingZeros(_)
StripTrailingZeros(s) ==
    IF s # << >> /\ s[Len(s)] = "0"
    THEN StripTrailingZeros(SubSeq(s, 1, Len(s) - 1))
    ELSE s

\* format!("{x}") of an f64 that is a decimal with at most three fractional
\* digits: the integer part, then '.' and the fraction without trailing
\* zeros when the fraction is not zero ("50.0" prints as "50").
FormatF64(a) ==
    LET milli == (Abs(a[1]) * 1000) \div a[2]
        ip    == NatToStr(milli \div 1000)
        f     == milli % 1000
        fp    == StripTrailingZeros(<< DigitChar(f \div 100),
                                       DigitChar((f \div 10) % 10),
                                       DigitChar(f % 10) >>)
    IN  (IF a[1] < 0 THEN << "-" >> ELSE << >>)
        \o ip \o (IF fp = << >> THEN << >> ELSE << "." >> \o fp)


\* ------------------------------------------------------------------------
\* Binary64 arithmetic
\* ------------------------------------------------------------------------

\* A natural number beyond the integers of the model checker is kept as the
\* sequence of its digits in base 2^15, least significant first, without
\* leading zero digits (<< >> is 0).
Limb == 32768

RECURSIVE BNorm(_)
BNorm(a) ==
    IF a # << >> /\ a[Len(a)] = 0 THEN BNorm(SubSeq(a, 1, Len(a) - 1)) ELSE a

RECURSIVE BFromInt(_)
BFromInt(n) == IF n = 0 THEN << >> ELSE << n % Limb >> \o BFromInt(n \div Limb)

RECURSIVE BToInt(_)
BToInt(a) == IF a = << >> THEN 0 ELSE a[1] + Limb * BToInt(Tail(a))

RECURSIVE BAddC(_, _, _)
BAddC(a, b, carry) ==
    IF a = << >> /\ b = << >>
    THEN IF carry = 0 THEN << >> ELSE << carry >>
    ELSE LET x == IF a = << >> THEN 0 ELSE a[1]
             y == IF b = << >> THEN 0 ELSE b[1]
             t == x + y + carry
         IN  << t % Limb >>
             \o BAddC(IF a = << >> THEN a ELSE Tail(a),
                      IF b = << >> THEN b ELSE Tail(b), t \div Limb)

BAdd(a, b) == BAddC(a, b, 0)

\* a - b for a >= b
RECURSIVE BSubC(_, _, _)
BSubC(a, b, borrow) ==
    IF a = << >> THEN << >>
    ELSE LET y == IF b = << >> THEN 0 ELSE b[1]
             t == a[1] - y - borrow
         IN  << IF t < 0 THEN t + Limb ELSE t >>
             \o BSubC(Tail(a), IF b = << >> THEN b ELSE Tail(b),
                      IF t < 0 THEN 1 ELSE 0)

BSub(a, b) == BNorm(BSubC(a, b, 0))

\* a < b
RECURSIVE BLessFrom(_, _, _)
BLessFrom(a, b, i) ==
    IF i = 0 THEN FALSE
    ELSE IF a[i] # b[i] THEN a[i] < b[i]
    ELSE BLessFrom(a, b, i - 1)

BLess(a, b) ==
    IF Len(a) # Len(b) THEN Len(a) < Len(b) ELSE BLessFrom(a, b, Len(a))

\* a * k for a digit k
RECURSIVE BMulSmallC(_, _, _)
BMulSmallC(a, k, carry) ==
    IF a = << >>
    THEN IF carry = 0 THEN << >> ELSE << carry >>
    ELSE LET t == a[1] * k + carry
         IN  << t % Limb >> \o BMulSmallC(Tail(a), k, t \div Limb)

BMulSmall(a, k) == IF k = 0 THEN << >> ELSE BMulSmallC(a, k, 0)

RECURSIVE BMul(_, _)
BMul(a, b) ==
    IF b = << >> \/ a = << >> THEN << >>
    ELSE LET rest == BMul(a, Tail(b))
         IN  BAdd(BMulSmall(a, b[1]),
                  IF rest = << >> THEN rest ELSE << 0 >> \o rest)

\* quotient and remainder of a by a digit d, from the most significant digit
RECURSIVE BDivSmallFrom(_, _, _, _, _)
BDivSmallFrom(a, d, i, q, r) ==
    IF i = 0 THEN [q |-> BNorm(q), r |-> r]
    ELSE LET t == r * Limb + a[i]
         IN  BDivSmallFrom(a, d, i - 1, << t \div d >> \o q, t % d)

BDivSmall(a, d) == BDivSmallFrom(a, d, Len(a), << >>, 0)

Pow2(k) ==
    CASE k = 0 -> 1 [] k = 1 -> 2 [] k = 2 -> 4 [] k = 3 -> 8 [] k = 4 -> 16
      [] k = 5 -> 32 [] k = 6 -> 64 [] k = 7 -> 128 [] k = 8 -> 256
      [] k = 9 -> 512 [] k = 10 -> 1024 [] k = 11 -> 2048 [] k = 12 -> 4096
      [] k = 13 -> 8192 [] k = 14 -> 16384

RECURSIVE BitsOf(_)
BitsOf(n) == IF n = 0 THEN 0 ELSE 1 + BitsOf(n \div 2)

\* the number of binary digits of a
BitLen(a) == IF a = << >> THEN 0 ELSE 15 * (Len(a) - 1) + BitsOf(a[Len(a)])

\* a * 2^s
BShl(a, s) ==
    IF a = << >> THEN a
    ELSE [i \in 1..(s \div 15) |-> 0] \o BMulSmall(a, Pow2(s % 15))

\* floor(a / 2^s)
BShr(a, s) ==
    IF s \div 15 >= Len(a) THEN << >>
    ELSE BDivSmall(SubSeq(a, (s \div 15) + 1, Len(a)), Pow2(s % 15)).q

BOdd(a) == a # << >> /\ a[1] % 2 = 1

\* a / 2^s rounded to the nearest integer, a tie to the even one (s >= 1).
\* The s dropped digits are the low (s \div 15) base-2^15 digits and the
\* remainder of the rest by 2^(s % 15); they are compared with 2^(s - 1).
BRoundShr(a, s) ==
    LET n    == s \div 15
        t    == s % 15
        qr   == BDivSmall(SubSeq(a, n + 1, Len(a)), Pow2(t))
        top  == IF t > 0 THEN qr.r ELSE a[n]
        half == IF t > 0 THEN Pow2(t - 1) ELSE 16384
        rest == \E i \in 1..(IF t > 0 THEN n ELSE n - 1) : a[i] # 0
        up   == \/ top > half
                \/ top = half /\ (rest \/ BOdd(qr.q))
    IN  IF up THEN BAdd(qr.q, << 1 >>) ELSE qr.q

\* A finite f64 is sign * m * 2^e with m of at most 53 binary digits; the
\* values of the model stay far from the subnormal and the infinite range.
F64(sign, m, e) == [sign |-> sign, m |-> m, e |-> e]

FZero == F64(1, << >>, 0)

\* rounding of an exact sign * m * 2^e to the nearest f64, ties to even
FRound(sign, m, e) ==
    IF BitLen(m) <= 53 THEN F64(sign, m, e)
    ELSE F64(sign, BRoundShr(m, BitLen(m) - 53), e + (BitLen(m) - 53))

\* `n as f64` for an integer below 2^31
FInt(n) == F64(IF n < 0 THEN 0 - 1 ELSE 1, BFromInt(IF n < 0 THEN 0 - n ELSE n), 0)

\* a * b
FMul(a, b) == FRound(a.sign * b.sign, BMul(a.m, b.m), a.e + b.e)

\* a + b: the exact sum of the aligned mantissas, rounded once
FAdd(a, b) ==
    LET e  == IF a.e < b.e THEN a.e ELSE b.e
        ma == BShl(a.m, a.e - e)
        mb == BShl(b.m, b.e - e)
    IN  IF a.sign = b.sign THEN FRound(a.sign, BAdd(ma, mb), e)
        ELSE IF ma = mb THEN FZero
        ELSE IF BLess(ma, mb) THEN FRound(b.sign, BSub(mb, ma), e)
        ELSE FRound(a.sign, BSub(ma, mb), e)

FNeg(a) == F64(0 - a.sign, a.m, a.e)

FAbs(a) == F64(1, a.m, a.e)

\* a < b
FLess(a, b) ==
    LET d == FAdd(a, FNeg(b))
    IN  d.m # << >> /\ d.sign < 0

\* a / d for an integer 1 <= d < 2^15: the quotient is taken with at least
\* 56 binary digits and a sticky digit for the remainder, then rounded once
FDivSmall(a, d) ==
    IF a.m = << >> THEN a
    ELSE LET k  == 56 + BitsOf(d) - BitLen(a.m)
             qr == BDivSmall(BShl(a.m, k), d)
             q  == BAdd(BShl(qr.q, 1), IF qr.r = 0 THEN << >> ELSE << 1 >>)
         IN  FRound(a.sign, q, a.e - k - 1)

\* the f64 nearest to the rational <<n, d>>, d a divisor of 1000
ToF64(a) == IF a[2] = 1 THEN FInt(a[1]) ELSE FDivSmall(FInt(a[1]), a[2])

\* `x as u64` for a finite f64 below 2^31: truncation, negatives give 0
FAsU64(a) ==
    IF a.sign < 0 \/ a.m = << >> THEN 0
    ELSE IF a.e >= 0 THEN BToInt(BShl(a.m, a.e))
    ELSE BToInt(BShr(a.m, 0 - a.e))

MaxQuotient == 1048576

\* the quotient of the leading 30 binary digits of p by the digits of q of
\* the same weight: an estimate of p / q
LeadingQuotient(p, q) ==
    LET bits == IF BitLen(p) > BitLen(q) THEN BitLen(p) ELSE BitLen(q)
        s  == IF bits > 30 THEN bits - 30 ELSE 0
        qt == BToInt(BShr(q, s))
    IN  IF qt = 0 THEN 0 ELSE BToInt(BShr(p, s)) \div qt

\* the integer part n of p / q and (n + 1) * q - p, searched from n
RECURSIVE BQuotient(_, _, _)
BQuotient(p, q, n) ==
    IF BLess(p, BMul(BFromInt(n), q)) THEN BQuotient(p, q, n - 1)
    ELSE LET above == BMul(BFromInt(n + 1), q)
         IN  IF BLess(p, above) THEN [n |-> n, short |-> BSub(above, p)]
             ELSE BQuotient(p, q, n + 1)

\* `(r as f64 / c) as u64` for an integer r >= 0 and c > 0: with n the
\* integer part of the exact quotient p / q, the f64 quotient is n + 1 when
\* the exact one is within half a unit in the last place below n + 1 (the
\* tie goes to n + 1, whose mantissa is even), and has integer part n
\* otherwise.
FQuotientAsU64(r, c) ==
    LET p == BShl(BFromInt(r), IF c.e < 0 THEN 0 - c.e ELSE 0)
        q == BShl(c.m, IF c.e > 0 THEN c.e ELSE 0)
        f == BQuotient(p, q, LeadingQuotient(p, q))
        up == ~BLess(q, BShl(f.short, 54 - BitsOf(f.n)))
    IN  IF up THEN f.n + 1 ELSE f.n


\* ------------------------------------------------------------------------
\* _init_partition_row_distribution_preset: parsing of the group spec
\* ------------------------------------------------------------------------

\* the literal "100:1" substituted for an empty group spec
DefaultGroups == << "1", "0", "0", ":", "1" >>

\* HashMap::insert on partn_multipliers.  The map is kept as the sequence of
\* its entries; an equal key keeps its slot and takes the new value.
MapInsert(map, key, k, v) ==
    IF \E i \in 1..Len(map) : map[i].key = key
    THEN [i \in 1..Len(map) |->
             IF map[i].key = key THEN [key |-> key, k |-> k, v |-> v] ELSE map[i]]
    ELSE Append(map, [key |-> key, k |-> k, v |-> v])

\* duplicates_dump.contains(processed_pair): the raw pair, spaces removed, is
\* looked up among the keys pushed so far, which are format!("{k}:{v}")
DumpContains(duplicates_dump, processed_pair) ==
    \E j \in 1..Len(duplicates_dump) : duplicates_dump[j] = processed_pair

\* format!("{k}:{v}")
PairKey(k, v) == FormatF64(k) \o << ":" >> \o FormatF64(v)

\* The `for pair in rows_per_partitions_groups.split(',')` loop, from pair i
\* on.  An element with fewer than two ':'-separated parts matches neither
\* arm of the outer `if let` and is passed over; parts beyond the second are
\* never read.
RECURSIVE ParsePairs(_, _, _, _, _)
ParsePairs(pairs, i, map, summary_percentage, duplicates_dump) ==
    IF i > Len(pairs)
    THEN [err |-> "none", map |-> map, sum |-> summary_percentage]
    ELSE
      LET processed_pair == RemoveSpaces(pairs[i])
          parts == Split(processed_pair, ":")
      IN  IF DumpContains(duplicates_dump, processed_pair)
          THEN [err |-> "found duplicates pairs", map |-> map,
                sum |-> summary_percentage]
          ELSE IF Len(parts) >= 2
          THEN LET k == ParseF64(parts[1])
                   v == ParseF64(parts[2])
               IN  IF k # ParseError /\ v # ParseError
                   THEN ParsePairs(pairs, i + 1,
                                   MapInsert(map, PairKey(k, v), k, v),
                                   FAdd(summary_percentage, ToF64(k)),
                                   Append(duplicates_dump, PairKey(k, v)))
                   ELSE [err |-> "Wrong sub-value", map |-> map,
                         sum |-> summary_percentage]
          ELSE ParsePairs(pairs, i + 1, map, summary_percentage, duplicates_dump)

\* variant: a tolerance of 0.02
PercentSumRejected_Loose(summary_percentage) ==
    FLess(ToF64(<< 2, 100 >>), FAbs(FAdd(summary_percentage, FNeg(FInt(100)))))

\* (summary_percentage - 100.0).abs() > 0.01
PercentSumRejected(summary_percentage) ==
    FLess(ToF64(<< 1, 100 >>), FAbs(FAdd(summary_percentage, FNeg(FInt(100)))))

\* ------------------------------------------------------------------------
\* Sizing
\* ------------------------------------------------------------------------

\* variant: the multiplier is truncated before the product is taken
PartnSize_TruncatedMultiplier(rows_per_partitions_base, partn_multiplier) ==
    rows_per_partitions_base * AsU64(partn_multiplier)

\* ((rows_per_partitions_base as f64) * partn_multiplier) as u64
PartnSize(rows_per_partitions_base, partn_multiplier) ==
    FAsU64(FMul(FInt(rows_per_partitions_base), ToF64(partn_multiplier)))

\* rows_per_partitions_base as f64 * partn_multiplier * partn_percent / 100.0
PartitionTypeSize(rows_per_partitions_base, partn_multiplier, partn_percent) ==
    FDivSmall(FMul(FMul(FInt(rows_per_partitions_base), ToF64(partn_multiplier)),
                   ToF64(partn_percent)),
              100)

\* partn_cycle_size after the entries from the j-th on, in the iteration
\* order `order` of the partn_multipliers hash map, were added to acc
RECURSIVE PartnCycleSize(_, _, _, _, _)
PartnCycleSize(map, order, j, acc, rows_per_partitions_base) ==
    IF j > Len(map) THEN acc
    ELSE PartnCycleSize(map, order, j + 1,
                        FAdd(acc, PartitionTypeSize(rows_per_partitions_base,
                                                    map[order[j]].v, map[order[j]].k)),
                        rows_per_partitions_base)

\* ((partn_count as f64) * partn_percent / 100.0) as u64
CurrentPartnCount(partn_count, partn_percent) ==
    FAsU64(FDivSmall(FMul(FInt(partn_count), ToF64(partn_percent)), 100))

\* the (count, size) ordering of partitions.sort_by: a goes before b
PartitionBefore(a, b) ==
    a.count > b.count \/ (a.count = b.count /\ a.size > b.size)

\* Vec::sort_by is stable: x goes after every element it does not precede
RECURSIVE SortPartitions(_)
SortPartitions(s) ==
    IF Len(s) <= 1 THEN s
    ELSE LET x    == s[Len(s)]
             done == SortPartitions(SubSeq(s, 1, Len(s) - 1))
             p    == Cardinality({j \in 1..Len(done) : ~PartitionBefore(x, done[j])})
         IN  SubSeq(done, 1, p) \o << x >> \o SubSeq(done, p + 1, Len(done))

RECURSIVE SumRows(_)
SumRows(partitions) ==
    IF partitions = << >> THEN 0
    ELSE partitions[1].count * partitions[1].size + SumRows(Tail(partitions))

RECURSIVE SumCounts(_)
SumCounts(partitions) ==
    IF partitions = << >> THEN 0
    ELSE partitions[1].count + SumCounts(Tail(partitions))

\* (row_count as f64 / partn_cycle_size) as u64 is beyond the integers of
\* the model: partn_cycle_size is 0.0 (the quotient is +inf, the count is
\* u64::MAX) or the quotient is MaxQuotient or more
CountSaturates(row_count, partn_cycle_size) ==
    \/ partn_cycle_size.m = << >>
    \/ /\ partn_cycle_size.sign > 0
       /\ ~BLess(BShl(BFromInt(row_count),
                      IF partn_cycle_size.e < 0 THEN 0 - partn_cycle_size.e ELSE 0),
                 BMul(BFromInt(MaxQuotient),
                      BShl(partn_cycle_size.m,
                           IF partn_cycle_size.e > 0 THEN partn_cycle_size.e ELSE 0)))

\* the partitions vector, pushed in the order `order`
Pushed(map, order, partn_count, rows_per_partitions_base) ==
    [j \in 1..Len(map) |->
        [count |-> CurrentPartnCount(partn_count, map[order[j]].k),
         size  |-> PartnSize(rows_per_partitions_base, map[order[j]].v)]]

\* the sized partitions, given partn_cycle_size
SizedBy(map, order, row_count, rows_per_partitions_base, partn_cycle_size) ==
    IF CountSaturates(row_count, partn_cycle_size)
    THEN [saturated |-> TRUE, partitions |-> << >>]
    ELSE [saturated |-> FALSE,
          partitions |->
              SortPartitions(
                  Pushed(map, order,
                         IF partn_cycle_size.sign < 0 THEN 0
                         ELSE FQuotientAsU64(row_count, partn_cycle_size),
                         rows_per_partitions_base))]

\* The `partitions` vector before reconciliation: one (count, size) tuple per
\* map entry, then sorted.  partn_cycle_size is summed in the iteration order
\* `order` of the partn_multipliers hash map.  The percent and multiplier
\* components of the tuples are never read afterwards and are left out, so
\* the sort key is the whole tuple and the iteration order of the
\* partn_counts hash map, in which the tuples are pushed, cannot show in the
\* sorted vector: they are pushed in `order` as well.
Sizing(map, order, row_count, rows_per_partitions_base) ==
    SizedBy(map, order, row_count, rows_per_partitions_base,
            PartnCycleSize(map, order, 1, FZero, rows_per_partitions_base))


\* ------------------------------------------------------------------------
\* Reconciliation against the requested row_count
\* ------------------------------------------------------------------------

NoPartitions == << >>

\* The grow / shrink adjustment of partitions[0].  `checked` says whether the
\* build panics on integer overflow.  Integer division by zero panics in
\* every build.  In the shrink branch three subtractions can go below zero:
\* partn_count and partitions[0].1 (when the rows to drop exceed what the
\* first group holds) and actual_row_count, which is reduced twice.  Without
\* overflow checks a wrapped actual_row_count is only printed, while a
\* wrapped partitions[0].1 is a count near 2^64 (outcome "Wrapped").
Reconcile(partitions, row_count, checked) ==
    LET actual_row_count == SumRows(partitions)
        partn_count == SumCounts(partitions)
        size0  == partitions[1].size
        count0 == partitions[1].count
        Panic(why) == [status |-> "Panic", cause |-> why, branch |-> "none",
                       partitions |-> NoPartitions, row_count_diff |-> 0]
    IN  IF row_count > actual_row_count
        THEN IF size0 = 0 THEN Panic("attempt to divide by zero")
             ELSE LET diff == row_count - actual_row_count
                      smallest_partn_count_diff == diff \div size0
                      additional_rows == smallest_partn_count_diff * size0
                  IN  [status |-> "Ok", cause |-> "", branch |-> "grow",
                       partitions |->
                           [partitions EXCEPT ![1].count = @ + smallest_partn_count_diff],
                       row_count_diff |-> diff - additional_rows]
        ELSE IF row_count < actual_row_count
        THEN IF size0 = 0 THEN Panic("attempt to divide by zero")
             ELSE LET diff == actual_row_count - row_count
                      smallest_partn_count_diff ==
                          (diff \div size0) + (IF diff % size0 # 0 THEN 1 ELSE 0)
                      additional_rows == smallest_partn_count_diff * size0
                  IN  IF smallest_partn_count_diff > partn_count
                         \/ smallest_partn_count_diff > count0
                      THEN IF checked
                           THEN Panic("attempt to subtract with overflow")
                           ELSE [status |-> "Wrapped", cause |-> "partitions[0].1",
                                 branch |-> "shrink", partitions |-> NoPartitions,
                                 row_count_diff |-> 0]
                      ELSE IF 2 * additional_rows > actual_row_count /\ checked
                      THEN Panic("attempt to subtract with overflow")
                      ELSE [status |-> "Ok", cause |-> "", branch |-> "shrink",
                            partitions |->
                                [partitions EXCEPT ![1].count = @ - smallest_partn_count_diff],
                            row_count_diff |-> additional_rows - diff]
        ELSE [status |-> "Ok", cause |-> "", branch |-> "none",
              partitions |-> partitions, row_count_diff |-> 0]

\* variant: the shortfall is left out
AbsorbShortfall_Dropped(partitions, row_count_diff) == partitions

\* variant: the shortfall always becomes a tuple of its own
AbsorbShortfall_AlwaysPush(partitions, row_count_diff) ==
    IF row_count_diff > 0
    THEN Append(partitions, [count |-> 1, size |-> row_count_diff])
    ELSE partitions

\* `if row_count_diff > 0 { ... }`: the first tuple whose size equals the
\* shortfall takes one more partition, else a tuple (1, shortfall) is pushed
AbsorbShortfall(partitions, row_count_diff) ==
    IF row_count_diff > 0
    THEN IF \E i \in 1..Len(partitions) : partitions[i].size = row_count_diff
         THEN LET i == CHOOSE k \in 1..Len(partitions) :
                           /\ partitions[k].size = row_count_diff
                           /\ \A j \in 1..(k - 1) : partitions[j].size # row_count_diff
              IN  [partitions EXCEPT ![i].count = @ + 1]
         ELSE Append(partitions, [count |-> 1, size |-> row_count_diff])
    ELSE partitions

\* ------------------------------------------------------------------------
\* PartitionGroup, RowDistribution, RowDistributionPreset
\* ------------------------------------------------------------------------

PartitionGroup(partition) ==
    [n_rows_per_group     |-> partition.count * partition.size,
     n_partitions         |-> partition.count,
     n_rows_per_partition |-> partition.size]

\* partition_groups.sort_by(|a, b| b.n_rows_per_group.cmp(&a.n_rows_per_group))
GroupBefore(a, b) == a.n_rows_per_group > b.n_rows_per_group

SortGroups_AsGiven(s) == s

RECURSIVE SortGroups(_)
SortGroups(s) ==
    IF Len(s) <= 1 THEN s
    ELSE LET x    == s[Len(s)]
             done == SortGroups(SubSeq(s, 1, Len(s) - 1))
             p    == Cardinality({j \in 1..Len(done) : ~GroupBefore(x, done[j])})
         IN  SubSeq(done, 1, p) \o << x >> \o SubSeq(done, p + 1, Len(done))

\* "Save data for further usage": the tuples with a positive count become
\* groups, sorted by rows descending
StoreGroups(partitions) ==
    LET kept == SelectSeq(partitions, LAMBDA q : q.count > 0)
    IN  SortGroups([i \in 1..Len(kept) |-> PartitionGroup(kept[i])])

RECURSIVE SumGroupRows(_)
SumGroupRows(partition_groups) ==
    IF partition_groups = << >> THEN 0
    ELSE partition_groups[1].n_rows_per_group + SumGroupRows(Tail(partition_groups))

\* RowDistributionPreset::new
NewPreset(partition_groups) ==
    [total_rows        |-> SumGroupRows(partition_groups),
     partition_groups  |-> partition_groups,
     row_distributions |-> << >>]

\* the two loops of max_gcd_with_tail, from the given tail on; best is
\* (max_gcd, best_split_n1, best_split_n2)
RECURSIVE TrySplitN1_LastBest(_, _, _, _)
TrySplitN1_LastBest(n1, n2, tail_n1, best) ==
    IF tail_n1 > n1 \div 100 THEN best
    ELSE LET head_n1 == n1 - tail_n1
             gcd_value == gcd(head_n1, n2)
         IN  TrySplitN1_LastBest(n1, n2, tail_n1 + 1,
                        IF gcd_value >= best[1] /\ gcd_value > 0
                        THEN << gcd_value, << head_n1 \div gcd_value, tail_n1 >>,
                                << n2 \div gcd_value, 0 >> >>
                        ELSE best)

RECURSIVE TrySplitN1(_, _, _, _)
TrySplitN1(n1, n2, tail_n1, best) ==
    IF tail_n1 > n1 \div 100 THEN best
    ELSE LET head_n1 == n1 - tail_n1
             gcd_value == gcd(head_n1, n2)
         IN  TrySplitN1(n1, n2, tail_n1 + 1,
                        IF gcd_value > best[1]
                        THEN << gcd_value, << head_n1 \div gcd_value, tail_n1 >>,
                                << n2 \div gcd_value, 0 >> >>
                        ELSE best)

RECURSIVE TrySplitN2(_, _, _, _)
TrySplitN2(n1, n2, tail_n2, best) ==
    IF tail_n2 > n2 \div 100 THEN best
    ELSE LET head_n2 == n2 - tail_n2
             gcd_value == gcd(n1, head_n2)
         IN  TrySplitN2(n1, n2, tail_n2 + 1,
                        IF gcd_value > best[1]
                        THEN << gcd_value, << n1 \div gcd_value, 0 >>,
                                << head_n2 \div gcd_value, tail_n2 >> >>
                        ELSE best)

max_gcd_with_tail(n1, n2) ==
    TrySplitN2(n1, n2, 0, TrySplitN1(n1, n2, 0, << 0, << 0, 0 >>, << 0, 0 >> >>))

RowDistribution(n_cycles, n_rows_for_left, n_rows_for_right) ==
    [n_cycles                  |-> n_cycles,
     n_rows_for_left           |-> n_rows_for_left,
     n_rows_for_right          |-> n_rows_for_right,
     n_rows_for_left_and_right |-> n_rows_for_left + n_rows_for_right,
     n_rows_for_all_cycles     |-> n_cycles * n_rows_for_left + n_cycles * n_rows_for_right]

\* variant: the cycles of type 1 do not carry the extra row of a tail
CycleTypes_NoTailRow(n_rows_per_group, other_rows) ==
    LET r == max_gcd_with_tail(n_rows_per_group, other_rows)
    IN  << RowDistribution(r[2][2] + r[3][2], r[2][1], r[3][1]),
           RowDistribution(r[1] - r[2][2] - r[3][2], r[2][1], r[3][1]) >>

\* one iteration of the loop of generate_row_distributions: the pair
\* (cycle type 1, cycle type 2) of a group, other_rows already reduced
CycleTypes(n_rows_per_group, other_rows) ==
    LET r == max_gcd_with_tail(n_rows_per_group, other_rows)
        cycles_num == r[1]
        mult_n1 == r[2][1]
        tail_n1 == r[2][2]
        mult_n2 == r[3][1]
        tail_n2 == r[3][2]
    IN  << RowDistribution(tail_n1 + tail_n2,
                           mult_n1 + (IF tail_n1 > 0 THEN 1 ELSE 0),
                           mult_n2 + (IF tail_n2 > 0 THEN 1 ELSE 0)),
           RowDistribution(cycles_num - tail_n1 - tail_n2, mult_n1, mult_n2) >>

RECURSIVE GenerateFrom_OwnRowsKept(_, _, _)
GenerateFrom_OwnRowsKept(partition_groups, i, other_rows) ==
    IF i > Len(partition_groups) THEN << >>
    ELSE << CycleTypes(partition_groups[i].n_rows_per_group, other_rows) >>
         \o GenerateFrom_OwnRowsKept(partition_groups, i + 1,
                  other_rows - partition_groups[i].n_rows_per_group)

RECURSIVE GenerateFrom(_, _, _)
GenerateFrom(partition_groups, i, other_rows) ==
    IF i > Len(partition_groups) THEN << >>
    ELSE LET rest == other_rows - partition_groups[i].n_rows_per_group
         IN  << CycleTypes(partition_groups[i].n_rows_per_group, rest) >>
             \o GenerateFrom(partition_groups, i + 1, rest)

generate_row_distributions(preset) ==
    [preset EXCEPT !.row_distributions =
                       GenerateFrom(preset.partition_groups, 1, preset.total_rows)]

\* a u64 subtraction of generate_row_distributions went below zero
GenerateOverflows(preset) ==
    \E i \in 1..Len(preset.row_distributions) :
        preset.row_distributions[i][2].n_cycles < 0


\* ------------------------------------------------------------------------
\* Index resolution
\* ------------------------------------------------------------------------

Resolved(idx, rows_num) ==
    [kind |-> "Ret", idx |-> idx, rows_num |-> rows_num, cause |-> ""]

ResolvePanic(why) ==
    [kind |-> "Panic", idx |-> 0, rows_num |-> 0, cause |-> why]

\* variant: the position inside the current cycle only
Type1Rank_InCycle(idx, done_cycle_type_1_rows, done_cycle_type_1_num, n_rows_for_left) ==
    idx - done_cycle_type_1_rows

\* idx - done_cycle_type_1_rows + done_cycle_type_1_num * n_rows_for_left:
\* the position, among the rows of the current group, of an idx that falls
\* in the left part of a cycle of type 1
Type1Rank(idx, done_cycle_type_1_rows, done_cycle_type_1_num, n_rows_for_left) ==
    idx - done_cycle_type_1_rows + done_cycle_type_1_num * n_rows_for_left

\* the same position for an idx in the left part of a cycle of type 2
Type2Rank(idx, done_cycle_type_1_num, n_rows_for_right_1, done_cycle_type_2_rows, done_cycle_type_2_num, n_rows_for_left_2) ==
    idx - done_cycle_type_1_num * n_rows_for_right_1 - done_cycle_type_2_rows
        + done_cycle_type_2_num * n_rows_for_left_2

\* variant: the left rows of one more cycle of type 1 are subtracted
NextIdx_OneCycleMore(idx, done_1_num, n_rows_for_left_1, done_2_num, n_rows_for_left_2) ==
    idx - (done_1_num + 1) * n_rows_for_left_1 - done_2_num * n_rows_for_left_2

\* `idx = idx - done_1_num * left_1 - done_2_num * left_2` before the next group
NextIdx(idx, done_1_num, n_rows_for_left_1, done_2_num, n_rows_for_left_2) ==
    idx - done_1_num * n_rows_for_left_1 - done_2_num * n_rows_for_left_2

\* variant: the offset is not advanced
NextPartnOffset_Stuck(partn_offset, current_partn_count) == partn_offset

\* `partn_offset += current_partn_count`
NextPartnOffset(partn_offset, current_partn_count) ==
    partn_offset + current_partn_count

\* The `for (loop_i, current_partn) in enumerate(partition_groups)` loop of
\* RowDistributionPreset::_get_partition_info from group loop_i on.  A u64
\* subtraction below zero is reported as kind "Overflow" (panic or wrap,
\* by build).
RECURSIVE WalkGroups(_, _, _, _)
WalkGroups(preset, loop_i, idx, partn_offset) ==
    IF loop_i > Len(preset.partition_groups)
    THEN ResolvePanic("Failed to match idx and partition idx!")
    ELSE
      LET current_partn == preset.partition_groups[loop_i]
          current_partn_count == current_partn.n_partitions
          cycle_type_1 == preset.row_distributions[loop_i][1]
          cycle_type_2 == preset.row_distributions[loop_i][2]
          cycle_type_1_size == cycle_type_1.n_rows_for_left_and_right
          cycle_type_2_size == cycle_type_2.n_rows_for_left_and_right
          Continue(done_1_num, done_2_num) ==
              LET next_idx == NextIdx(idx, done_1_num, cycle_type_1.n_rows_for_left,
                                      done_2_num, cycle_type_2.n_rows_for_left)
              IN  IF next_idx < 0
                  THEN [kind |-> "Overflow", idx |-> 0, rows_num |-> 0,
                        cause |-> "attempt to subtract with overflow"]
                  ELSE WalkGroups(preset, loop_i + 1, next_idx,
                                  NextPartnOffset(partn_offset, current_partn_count))
      IN  IF idx < cycle_type_1.n_rows_for_all_cycles
          THEN LET done_cycle_type_1_num ==
                       (idx + cycle_type_1.n_rows_for_right) \div cycle_type_1_size
                   done_cycle_type_1_rows == done_cycle_type_1_num * cycle_type_1_size
               IN  IF /\ done_cycle_type_1_rows <= idx
                      /\ idx < cycle_type_1.n_rows_for_left + done_cycle_type_1_rows
                   THEN Resolved(partn_offset
                                   + (Type1Rank(idx, done_cycle_type_1_rows,
                                                done_cycle_type_1_num,
                                                cycle_type_1.n_rows_for_left)
                                      % current_partn_count),
                                 current_partn.n_rows_per_partition)
                   ELSE Continue(done_cycle_type_1_num, 0)
          ELSE IF cycle_type_2_size = 0
          THEN ResolvePanic("attempt to divide by zero")
          ELSE LET done_cycle_type_1_num == cycle_type_1.n_cycles
                   done_cycle_type_1_rows == done_cycle_type_1_num * cycle_type_1_size
                   done_cycle_type_2_num ==
                       (idx - done_cycle_type_1_rows + cycle_type_2.n_rows_for_right)
                           \div cycle_type_2_size
                   done_cycle_type_2_rows == done_cycle_type_2_num * cycle_type_2_size
                   total_done_rows == done_cycle_type_1_rows + done_cycle_type_2_rows
               IN  IF /\ total_done_rows <= idx
                      /\ idx < total_done_rows + cycle_type_2.n_rows_for_left
                   THEN Resolved(partn_offset
                                   + (Type2Rank(idx, done_cycle_type_1_num,
                                                cycle_type_1.n_rows_for_right,
                                                done_cycle_type_2_rows,
                                                done_cycle_type_2_num,
                                                cycle_type_2.n_rows_for_left)
                                      % current_partn_count),
                                 current_partn.n_rows_per_partition)
                   ELSE Continue(done_cycle_type_1_num, done_cycle_type_2_num)

\* variant: no reduction
ReduceIdx_Identity(idx, total_rows) == idx

\* the reduction applied by RowDistributionPreset::get_partition_info
ReduceIdx(idx, total_rows) == idx % total_rows

\* RowDistributionPreset::get_partition_info, with the two emptiness panics
\* of _get_partition_info
get_partition_info(preset, idx) ==
    IF preset.total_rows = 0
    THEN ResolvePanic("attempt to calculate the remainder with a divisor of zero")
    ELSE IF preset.partition_groups = << >>
    THEN ResolvePanic("No partition groups found, cannot proceed")
    ELSE IF preset.row_distributions = << >>
    THEN ResolvePanic("No row_distributions found, cannot proceed")
    ELSE WalkGroups(preset, 1, ReduceIdx(idx, preset.total_rows), 0)

\* ------------------------------------------------------------------------
\* _init_partition_row_distribution_preset as a whole
\* ------------------------------------------------------------------------

NoPreset == [total_rows |-> 0, partition_groups |-> << >>, row_distributions |-> << >>]

NoTrace == [branch |-> "none", adjusted |-> << >>, shortfall |-> 0, absorbed |-> << >>]

\* the parse loop over the whole argument ("" stands for "100:1")
ParseGroups(rows_per_partitions_groups) ==
    ParsePairs(Split(IF rows_per_partitions_groups = << >>
                     THEN DefaultGroups ELSE rows_per_partitions_groups, ","),
               1, << >>, FZero, << >>)

\* the iteration orders a hash map of n entries can have
IterationOrders(n) == Permutations(1..n)

\* The outcome of one call: status "Ok" with the preset to insert, "Err" with
\* the cause of the DbError, "Panic", "Wrapped" (a count wrapped around 2^64
\* in a build without overflow checks) or "Saturated" (partn_cycle_size is
\* 0.0, the division gives +inf and partn_count is u64::MAX: counts beyond
\* the integers of this model).  trace keeps the partitions vector after the
\* grow/shrink step, the shortfall left, and the vector after the shortfall
\* was absorbed.
Stop(status, cause) ==
    [status |-> status, cause |-> cause, preset |-> NoPreset, trace |-> NoTrace]

\* `ctx.partition_row_presets.insert(...); Ok(())`, unless a subtraction of
\* generate_row_distributions went below zero
Stored(rec, absorbed, preset, checked) ==
    IF GenerateOverflows(preset)
    THEN Stop(IF checked THEN "Panic" ELSE "Wrapped", "cycles_num")
    ELSE [status |-> "Ok", cause |-> "", preset |-> preset,
          trace |-> [branch |-> rec.branch, adjusted |-> rec.partitions,
                     shortfall |-> rec.row_count_diff, absorbed |-> absorbed]]

\* the second sort, the partition groups and their row distributions
Saved(rec, absorbed, checked) ==
    Stored(rec, absorbed,
           generate_row_distributions(NewPreset(StoreGroups(SortPartitions(absorbed)))),
           checked)

\* the shortfall left by the grow/shrink step is absorbed
Adjusted(rec, checked) ==
    IF rec.status # "Ok" THEN Stop(rec.status, rec.cause)
    ELSE Saved(rec, AbsorbShortfall(rec.partitions, rec.row_count_diff), checked)

\* the sized partitions are reconciled with row_count
Sized(sized, row_count, checked) ==
    IF sized.saturated THEN Stop("Saturated", "partn_count")
    ELSE Adjusted(Reconcile(sized.partitions, row_count, checked), checked)

\* the test of the percent sum, then the sizing
Parsed(parsed, row_count, rows_per_partitions_base, order, checked) ==
    IF parsed.err # "none" THEN Stop("Err", parsed.err)
    ELSE IF PercentSumRejected(parsed.sum)
    THEN Stop("Err", "summary of partition percentage must be '100'")
    ELSE Sized(Sizing(parsed.map, order, row_count, rows_per_partitions_base),
               row_count, checked)

InitOutcome(preset_name, row_count, rows_per_partitions_base, rows_per_partitions_groups, order, checked) ==
    IF preset_name = "" THEN Stop("Err", "'preset_name' cannot be empty")
    ELSE IF row_count < 1 THEN Stop("Err", "'row_count' cannot be less than 1")
    ELSE IF rows_per_partitions_base < 1
    THEN Stop("Err", "'rows_per_partitions_base' cannot be less than 1")
    ELSE Parsed(ParseGroups(rows_per_partitions_groups), row_count,
                rows_per_partitions_base, order, checked)


\* ------------------------------------------------------------------------
\* Values of the script and errors of the executor
\* ------------------------------------------------------------------------

\* Option<T>
None == << >>
Some(x) == << x >>

Min(a, b) == IF a <= b THEN a ELSE b

\* rune::Value, the variants a script passes in `params`.  An i64 is
\* wraps * 2^32 + val with val in the range of i32: wraps is 0 for the
\* integers that fit i32.
WideInteger(wraps, n) == [type |-> "Integer", val |-> n, wraps |-> wraps]
Integer(n) == WideInteger(0, n)

String(s) == [type |-> "String", val |-> s]
Bool(b) == [type |-> "Bool", val |-> b]
Vec(items) == [type |-> "Vec", val |-> items]
EmptyTuple == [type |-> "EmptyTuple", val |-> << >>]

\* Result<T, E>
Ok(v) == [kind |-> "Ok", val |-> v]
Err(e) == [kind |-> "Err", val |-> e]

\* i32::try_from(i)
I32TryFrom(i) == IF i.wraps = 0 THEN Ok(i.val) ELSE Err("TryFromIntError")

\* `i as i32`: the low 32 bits
AsI32(i) == i.val

\* a u64 written wraps * 2^64 + low, with low < 0 only when wraps = 1
U64(n) == [wraps |-> 0, low |-> n]

\* `n as u64` of an i64: a negative n is 2^64 + n
I64AsU64(n) == [wraps |-> IF n >= 0 THEN 0 ELSE 1, low |-> n]

\* a < b of two u64
U64Less(a, b) == a.wraps < b.wraps \/ (a.wraps = b.wraps /\ a.low < b.low)

\* AlternatorError(kind(message)); a formatted message is the sequence of
\* the pieces of its format string and of its arguments
AlternatorError(kind, message) == [kind |-> kind, message |-> message]

\* bad_input(msg)
bad_input(msg) == AlternatorError("BadInput", msg)

query_retries_exceeded_NoNumber(retry_number) ==
    AlternatorError("QueryRetriesExceeded", << "Max retry attempts reached" >>)

\* AlternatorError::query_retries_exceeded(retry_number)
query_retries_exceeded(retry_number) ==
    AlternatorError("QueryRetriesExceeded",
                    << "Max retry attempts (", retry_number, ") reached" >>)

\* ------------------------------------------------------------------------
\* Validation arguments: functions_common.rs
\* ------------------------------------------------------------------------

\* struct ValidationArgs, built with `as u64` from the i64 of the script
ValidationArgs(min, max, custom_err_msg) ==
    [expected_min |-> I64AsU64(min), expected_max |-> I64AsU64(max),
     custom_err_msg |-> custom_err_msg]

IsA(validation_args, i, type) == validation_args[i].type = type

\* extract_validation_args(validation_args)
extract_validation_args(validation_args) ==
    LET n == Len(validation_args)
    IN  IF n = 1 /\ IsA(validation_args, 1, "Integer")
        THEN Ok(ValidationArgs(validation_args[1].val, validation_args[1].val, ""))
        ELSE IF n = 2 /\ IsA(validation_args, 1, "Integer")
                      /\ IsA(validation_args, 2, "Integer")
        THEN Ok(ValidationArgs(validation_args[1].val, validation_args[2].val, ""))
        ELSE IF n = 2 /\ IsA(validation_args, 1, "Integer")
                      /\ IsA(validation_args, 2, "String")
        THEN Ok(ValidationArgs(validation_args[1].val, validation_args[1].val,
                               validation_args[2].val))
        ELSE IF n = 3 /\ IsA(validation_args, 1, "Integer")
                      /\ IsA(validation_args, 2, "Integer")
                      /\ IsA(validation_args, 3, "String")
        THEN Ok(ValidationArgs(validation_args[1].val, validation_args[2].val,
                               validation_args[3].val))
        ELSE Err("Invalid arguments for validation args")

\* ------------------------------------------------------------------------
\* Request executor: alternator/functions.rs, alternator/traits.rs
\* ------------------------------------------------------------------------

\* the operations of the script that go through handle_request; "put"
\* stands for put, delete and update, whose outputs hold no item
Paginated == {"query", "scan"}
Operations == Paginated \cup {"get", "put"}

\* variant: every request builder takes a page size and a key
has_pagination_Always(op) == TRUE

\* AlternatorRequest::has_pagination
has_pagination(op) == op \in Paginated

\* the `limit` parameter of query and scan, as the builder keeps it: query
\* converts it with i32::try_from, scan with `as i32`
BuildLimit(op, params) ==
    IF ~has_pagination(op) \/ params.limit = None
    THEN Ok(None)
    ELSE IF params.limit[1].type # "Integer"
    THEN Err(bad_input("limit must be an integer"))
    ELSE IF op = "query" /\ I32TryFrom(params.limit[1]).kind = "Err"
    THEN Err(bad_input("limit is out of range"))
    ELSE Ok(Some(AsI32(params.limit[1])))

\* the `validation` parameter of query and scan: read only when it is a Vec
BuildValidation(op, params) ==
    IF \/ ~has_pagination(op)
       \/ params.validation = None
       \/ params.validation[1].type # "Vec"
    THEN Ok(None)
    ELSE LET v == extract_validation_args(params.validation[1].val)
         IN  IF v.kind = "Err"
             THEN Err(AlternatorError("BadInput", v.val))
             ELSE Ok(Some(v.val))

\* the `with_result` parameter: true only for Value::Bool(true)
WithResult(params) ==
    params.with_result # None /\ params.with_result[1] = Bool(TRUE)

\* no operation in progress
Idle ==
    [pc |-> "idle", op |-> "none", args |-> None, limit |-> None,
     query_limit |-> None,
     validation |-> None,
     with_result |-> FALSE, token |-> None, current_attempt_num |-> 0,
     all_pages_duration |-> 0, all_items |-> << >>, total_item_count |-> 0,
     handled |-> None, result |-> None]

\* the operation up to its call of handle_request, and the locals of
\* handle_request before its loop; args keeps the `validation` parameter
\* the script gave
Started(op, args, with_result, limit, validation) ==
    IF limit.kind = "Err"
    THEN [Idle EXCEPT !.pc = "done", !.op = op, !.args = args,
                      !.result = Some(limit)]
    ELSE IF validation.kind = "Err"
    THEN [Idle EXCEPT !.pc = "done", !.op = op, !.args = args,
                      !.result = Some(validation)]
    ELSE [Idle EXCEPT !.pc = "loop", !.op = op, !.args = args,
                      !.query_limit = limit.val,
                      !.validation = validation.val,
                      !.with_result = with_result]

PageSize_Unlimited(r, page_size) == page_size

\* page_size of one iteration of the loop
PageSize(r, page_size) ==
    IF r.query_limit # None
    THEN Min(page_size, r.query_limit[1] - r.total_item_count)
    ELSE page_size

\* the key of the page a token asks for
PageKey(token) == IF token = None THEN 0 ELSE token[1]

\* IntoAlternatorOutput::into_output of the answer to a send
into_output(op, resp, key) ==
    IF resp.status # "Ok"
    THEN Err(AlternatorError("SdkError", "No message"))
    ELSE IF op = "put"
    THEN Ok([page_items |-> << >>, item_count |-> 0, next_token |-> None])
    ELSE IF resp.count > 0 /\ ~resp.convertible
    THEN Err(AlternatorError("ConversionError", "item"))
    ELSE IF op = "get"
    THEN Ok([page_items |-> IF resp.count > 0 THEN << resp.items[1] >> ELSE << >>,
             item_count |-> IF resp.count > 0 THEN 1 ELSE 0,
             next_token |-> None])
    ELSE Ok([page_items |-> resp.items,
             item_count |-> resp.count,
             next_token |-> IF resp.more THEN Some(key + 1) ELSE None])

Accumulated_TimeOfLastPage(r, duration, out) ==
    [r EXCEPT !.all_pages_duration = duration,
              !.all_items = @ \o out.page_items,
              !.total_item_count = @ + out.item_count,
              !.token = out.next_token]

\* variant: the items of a page go before the items of the pages before it
Accumulated_NewestFirst(r, duration, out) ==
    [r EXCEPT !.all_pages_duration = @ + duration,
              !.all_items = out.page_items \o @,
              !.total_item_count = @ + out.item_count,
              !.token = out.next_token]

\* the Ok arm up to the new token
Accumulated(r, duration, out) ==
    [r EXCEPT !.all_pages_duration = @ + duration,
              !.all_items = @ \o out.page_items,
              !.total_item_count = @ + out.item_count,
              !.token = out.next_token]

LimitReached(r) ==
    r.query_limit # None /\ r.total_item_count >= r.query_limit[1]

NextPage(r) == r.token # None /\ has_pagination(r.op)

OpName(op) == IF op = "query" THEN "Query" ELSE "Scan"

ValidationFailure_Exclusive(op, validation, item_count) ==
    IF /\ validation # None
       /\ \/ ~U64Less(validation[1].expected_min, item_count)
          \/ ~U64Less(item_count, validation[1].expected_max)
    THEN Some(AlternatorError("ValidationError",
              << OpName(op), " returned ", item_count,
                 " items, expected between ", validation[1].expected_min,
                 " and ", validation[1].expected_max, " ",
                 validation[1].custom_err_msg >>))
    ELSE None

\* the test of the item count by query and scan
ValidationFailure(op, validation, item_count) ==
    IF /\ validation # None
       /\ \/ U64Less(item_count, validation[1].expected_min)
          \/ U64Less(validation[1].expected_max, item_count)
    THEN Some(AlternatorError("ValidationError",
              << OpName(op), " returned ", item_count,
                 " items, expected between ", validation[1].expected_min,
                 " and ", validation[1].expected_max, " ",
                 validation[1].custom_err_msg >>))
    ELSE None

\* what the operation returns once handle_request returned Ok(all_items)
Completed(op, validation, with_result, all_items) ==
    IF has_pagination(op)
    THEN LET failure == ValidationFailure(op, validation, U64(Len(all_items)))
         IN  IF failure # None THEN Err(failure[1])
             ELSE IF with_result THEN Ok(Vec(all_items))
             ELSE Ok(EmptyTuple)
    ELSE IF op = "get" /\ with_result
    THEN Ok(IF all_items = << >> THEN None ELSE Some(all_items[1]))
    ELSE Ok(EmptyTuple)

\* handle_request returns Ok(all_items) to the operation
Returning(r) ==
    [r EXCEPT !.pc = "done",
              !.handled = Some(Ok(r.all_items)),
              !.result = Some(Completed(r.op, r.validation, r.with_result,
                                        r.all_items))]

\* SessionStats::complete_request(duration, item_count)
complete_request(s, duration, item_count) ==
    [s EXCEPT !.completed = Append(@, << duration, item_count >>)]

\* SessionStats::start_request()
start_request(s) == [s EXCEPT !.started = @ + 1]

\* handle_retry_error(ctx, attempt, error): may log and sleep; what it
\* returns is dropped by handle_request
handle_retry_error(r, error) == r

WithinBudget_Unbounded(r, retry_number) == TRUE

\* the condition of the loop: `current_attempt_num <= ctx.retry_number`
WithinBudget(r, retry_number) == r.current_attempt_num <= retry_number

\* the Err arm
Failed(r, error) ==
    [handle_retry_error(r, error) EXCEPT !.current_attempt_num = @ + 1]

Succeeded_KeepsAttempts(acc) ==
    IF LimitReached(acc) THEN Returning(acc)
    ELSE IF NextPage(acc) THEN acc
    ELSE Returning(acc)

\* the Ok arm
Succeeded(acc) ==
    IF LimitReached(acc) THEN Returning(acc)
    ELSE IF NextPage(acc) THEN [acc EXCEPT !.current_attempt_num = 0]
    ELSE Returning(acc)

\* what went over the wire, kept to state the properties: the sends, the
\* sends of the page of the last request, the time of the attempts that
\* succeeded, the last request and its error, and whether no answer held
\* more items than its request allowed
Wire(w, r, limit, resp, duration, out) ==
    [sends |-> w.sends + 1,
     page_sends |-> IF w.error = None THEN 1 ELSE w.page_sends + 1,
     succeeded |-> w.succeeded + (IF out.kind = "Ok" THEN duration ELSE 0),
     request |-> Some([token |-> r.token, limit |-> limit,
                       items_so_far |-> r.total_item_count]),
     error |-> IF out.kind = "Ok" THEN None ELSE Some(out.val.kind),
     fetched |-> IF out.kind = "Ok" THEN w.fetched \o out.val.page_items
                 ELSE w.fetched,
     honest |-> w.honest /\ (resp.status = "Ok" /\ limit # None
                            => resp.count <= limit[1])]

\* ------------------------------------------------------------------------
\* State
\* ------------------------------------------------------------------------

VARIABLES
    partition_row_presets,  \* Context::partition_row_presets, name -> preset
    last,                   \* the last call made on the context and its outcome
    checked,                \* the build panics on integer overflow
    ctx,                    \* Context::retry_number and Context::page_size
    req,                    \* the operation in progress and the locals of handle_request
    wire,                   \* what went over the wire for it
    stats,                  \* Context::stats, the calls made on it
    calc,                   \* the last call of a function of row_distribution.rs on its own
    tasks                   \* the handle_request executions that share ctx

vars == << partition_row_presets, last, checked, ctx, req, wire, stats, calc, tasks >>

NoRet == << 0, 0 >>

\* no function was called on its own
NoCalc == [fn |-> "none", n1 |-> 0, n2 |-> 0, ret |-> << 0, << 0, 0 >>, << 0, 0 >> >>]

NoCall ==
    [op |-> "none", name |-> "", row_count |-> 0, base |-> 0, groups |-> << >>,
     idx |-> 0, status |-> "", cause |-> "", trace |-> NoTrace, ret |-> NoRet]

\* a panic (or a count wrapped around 2^64) ends the run of the script
Running == last.status \notin {"Panic", "Wrapped", "Saturated"}

RegistryInsert_OnlyLast(presets, preset_name, preset) ==
    [n \in {preset_name} |-> preset]

\* HashMap::insert on partition_row_presets
RegistryInsert(presets, preset_name, preset) ==
    [n \in DOMAIN presets \cup {preset_name} |->
        IF n = preset_name THEN preset ELSE presets[n]]

\* the effect of a call of outcome out: the preset is inserted on Ok only
Returned(preset_name, row_count, rows_per_partitions_base, rows_per_partitions_groups, out) ==
    /\ partition_row_presets' =
           IF out.status = "Ok"
           THEN RegistryInsert(partition_row_presets, preset_name, out.preset)
           ELSE partition_row_presets
    /\ last' = [op |-> "init", name |-> preset_name, row_count |-> row_count,
                base |-> rows_per_partitions_base,
                groups |-> rows_per_partitions_groups, idx |-> 0,
                status |-> out.status, cause |-> out.cause,
                trace |-> out.trace, ret |-> NoRet]

\* init_partition_row_distribution_preset(ctx, preset_name, row_count,
\* rows_per_partitions_base, rows_per_partitions_groups); order is the
\* iteration order of the partn_multipliers hash map in this call
InitPreset(preset_name, row_count, rows_per_partitions_base, rows_per_partitions_groups, order) ==
    /\ Running
    /\ Returned(preset_name, row_count, rows_per_partitions_base,
                rows_per_partitions_groups,
                InitOutcome(preset_name, row_count, rows_per_partitions_base,
                            rows_per_partitions_groups, order, checked))
    /\ UNCHANGED << checked, ctx, req, wire, stats, calc, tasks >>

\* _get_partition_info(ctx, preset_name, idx): the typed error
\* PartitionRowPresetNotFound(preset_name) for a name without preset, else
\* the resolution of idx by the preset
LookupOutcome(presets, preset_name, idx) ==
    IF preset_name \notin DOMAIN presets
    THEN [kind |-> "Err", idx |-> 0, rows_num |-> 0,
          cause |-> "PartitionRowPresetNotFound"]
    ELSE get_partition_info(presets[preset_name], idx)

\* `.expect("failed to get partition")` of the script functions: an Err of
\* the lookup is a panic of the caller
Expected(preset_name, idx, r) ==
    [NoCall EXCEPT
        !.op = "get", !.name = preset_name, !.idx = idx,
        !.status = IF r.kind = "Ret" THEN "Ok" ELSE "Panic",
        !.cause = IF r.kind = "Err"
                  THEN "failed to get partition: PartitionRowPresetNotFound"
                  ELSE r.cause,
        !.ret = IF r.kind = "Ret" THEN << r.idx, r.rows_num >> ELSE NoRet]

\* get_partition_info(ctx, preset_name, idx) and get_partition_idx(ctx,
\* preset_name, idx) of the script
LookupPartition(preset_name, idx) ==
    /\ Running
    /\ last' = Expected(preset_name, idx,
                        LookupOutcome(partition_row_presets, preset_name, idx))
    /\ UNCHANGED << partition_row_presets, checked, ctx, req, wire, stats, calc, tasks >>

\* ------------------------------------------------------------------------
\* Inputs
\* ------------------------------------------------------------------------

MaxRowCount == 24
MaxBase == 4
MaxPairs == 2
MaxStressIdx == 5
MaxSmallRows == 1

RECURSIVE Join(_, _)
Join(pieces, sep) ==
    IF Len(pieces) = 1 THEN pieces[1]
    ELSE pieces[1] \o << sep >> \o Join(Tail(pieces), sep)

\* the comma-separated elements the syntax family of group specs is made of
Elements ==
    { << "1", "0", "0", ":", "1" >>,   \* "100:1"
      << "5", "0", ":", "1" >>,   \* "50:1"
      << "5", "0", ".", "0", ":", "1" >>,   \* "50.0:1"
      << " ", "5", "0", ":", "1" >>,   \* " 50:1"
      << "5", "0", ":", "2" >>,   \* "50:2"
      << "9", "0", ":", "1" >>,   \* "90:1"
      << "1", "0", ":", "2" >>,   \* "10:2"
      << "9", ".", "9", "8", "9", ":", "2" >>,   \* "9.989:2"
      << "1", "0", ".", "0", "1", "1", ":", "2" >>,   \* "10.011:2"
      << "t", "e", "n", ":", "1" >>,   \* "ten:1"
      << "5", "0" >>,   \* "50"
      << "5", "0", ":", "1", ":", "2" >>,   \* "50:1:2"
      << >> }   \* ""

\* every group spec of 1..MaxPairs elements
SyntaxGroupSpecs ==
    UNION {{Join(s, ",") : s \in [1..n -> Elements]} : n \in 1..MaxPairs}

\* group specs that pass the argument checks, for sizing and reconciliation
SizingGroupSpecs ==
    { << >>,   \* ""
      << "1", "0", "0", ":", "1" >>,   \* "100:1"
      << "5", "0", ":", "1", ",", "5", "0", ":", "2" >>,   \* "50:1,50:2"
      << "9", "0", ":", "1", ",", "1", "0", ":", "2" >>,   \* "90:1,10:2"
      << "5", "0", ":", "1", ",", "3", "0", ":", "2", ",", "2", "0", ":", "4" >>,   \* "50:1,30:2,20:4"
      << "5", "0", ":", "0", ".", "5", ",", "3", "0", ":", "1", ",", "2", "0", ":", "2" >>,   \* "50:0.5,30:1,20:2"
      << "5", "0", ":", "2", ",", "3", "0", ":", "1", ",", "2", "0", ":", "1" >>,   \* "50:2,30:1,20:1"
      << "4", "9", ".", "9", ":", "1", ",", "4", "9", ".", "9", ":", "2", ",", " ", "0", ".", "2", ":", "5" >>,   \* "49.9:1,49.9:2, 0.2:5"
      << "1", "2", "0", ":", "1", ",", "-", "2", "0", ":", "1" >>,   \* "120:1,-20:1"
      << "1", "5", "0", ":", "1", ",", "-", "5", "0", ":", "2" >>,   \* "150:1,-50:2"
      << "5", "0", ":", "2", ",", "5", "0", ":", "-", "1" >>,   \* "50:2,50:-1"
      << "4", "0", ":", "1", ",", "4", "0", ":", "1", ".", "5", ",", "2", "0", ":", "-", "4" >>,   \* "40:1,40:1.5,20:-4"
      << "1", "0", "0", ":", "0", ".", "5" >>,   \* "100:0.5"
      << "6", "0", ":", "1", ",", "4", "0", ":", "1", ".", "5" >>,   \* "60:1,40:1.5"
      << "1", "0", ":", "1", ",", "1", "0", ":", "3", ",", "8", "0", ":", "1" >> }   \* "10:1,10:3,80:1"

\* the group specs of the several-presets specification
SmallGroupSpecs ==
    { << "1", "0", "0", ":", "1" >>,   \* "100:1"
      << "9", "0", ":", "1", ",", "1", "0", ":", "2" >>,   \* "90:1,10:2"
      << "9", "0", ":", "1", ",", "9", ".", "9", "8", "9", ":", "2" >>,   \* "90:1,9.989:2"
      << "9", "0", ":", "1", ",", "1", "0", ".", "0", "1", "1", ":", "2" >>,   \* "90:1,10.011:2"
      << "9", "0", ":", "1", ",", "t", "e", "n", ":", "1" >> }   \* "90:1,ten:1"

RowCounts == (0..MaxRowCount) \cup {100, 113, 203, 207, 244}
Bases == (0..MaxBase) \cup {13}
StressIdx == 0..MaxStressIdx
Names == {"", "foo", "bar"}

\* the calls of the one-preset specification
OneInputs ==
    [name : {"foo"}, row_count : RowCounts, base : Bases, groups : SizingGroupSpecs]
    \cup [name : {"foo"}, row_count : {20}, base : {3}, groups : SyntaxGroupSpecs]
    \cup [name : {""}, row_count : {0, 20}, base : {0, 3}, groups : SmallGroupSpecs]

\* the calls of the several-presets specification
SmallInputs ==
    [name : {"foo", "bar"}, row_count : (0..MaxSmallRows) \cup {5}, base : {0, 1},
     groups : SmallGroupSpecs]
    \cup [name : {""}, row_count : {1}, base : {1}, groups : SmallGroupSpecs]

OrdersOf(groups) == IterationOrders(Len(ParseGroups(groups).map))

\* arguments of max_gcd_with_tail: small ones, and some of 100 and more,
\* which have tails to try
MaxGcdArg == 30
GcdArgs == (0..MaxGcdArg) \cup {100, 101, 199, 200, 203, 302, 1000, 1010}

\* inputs of the executor
MaxRetry == 2
MaxPageSize == 3
MaxLimit == 5
MaxPageItems == 3
MaxDuration == 2
MaxSends == 4
MaxArgs == 3

Contexts == [retry_number : 0..MaxRetry, page_size : {1, MaxPageSize}]

Durations == {1, MaxDuration}

\* answers to a send: items and maybe a key to go on from, an item that has
\* no script value, an error of the SDK
Responses ==
    {[status |-> "Ok", count |-> c, items |-> [i \in 1..c |-> "item"],
      convertible |-> TRUE, more |-> m] : c \in 0..MaxPageItems, m \in BOOLEAN}
    \cup {[status |-> "Ok", count |-> 1, items |-> << "item" >>,
           convertible |-> FALSE, more |-> FALSE],
          [status |-> "Err", count |-> 0, items |-> << >>,
           convertible |-> TRUE, more |-> FALSE]}

\* answers to the send that asks for the page of key `key`, the items told
\* apart: item i of that page is << key, i >>
PageResponses(key) ==
    {[status |-> "Ok", count |-> c, items |-> [i \in 1..c |-> << key, i >>],
      convertible |-> TRUE, more |-> m] : c \in 0..MaxPageItems, m \in BOOLEAN}
    \cup {[status |-> "Err", count |-> 0, items |-> << >>,
           convertible |-> TRUE, more |-> FALSE]}

ArgValues == {Integer(-1), Integer(2), String("rows"), Bool(TRUE)}

RECURSIVE Lists(_, _)
Lists(S, n) ==
    IF n = 0 THEN {<< >>}
    ELSE Lists(S, n - 1) \cup
         {Append(l, x) : l \in {m \in Lists(S, n - 1) : Len(m) = n - 1}, x \in S}

ValidationLists ==
    Lists(ArgValues, MaxArgs) \cup {<< Integer(10), Integer(10) >>}

LimitParams ==
    {None, Some(String("5")), Some(WideInteger(1, 2))}
    \cup {Some(Integer(l)) : l \in 0..MaxLimit}

NoParams == [limit |-> None, validation |-> None, with_result |-> None]

\* the requests drawn on a context: query with every limit, scan with and
\* without result, the operations without pagination, a validated scan, and
\* on a context without retry query with every validation list
RequestInputs(c) ==
    {[op |-> "query", params |-> [NoParams EXCEPT !.limit = l]] :
        l \in LimitParams}
    \cup
    {[op |-> "scan", params |-> [NoParams EXCEPT !.limit = l, !.with_result = w]] :
        l \in {None, Some(Integer(2))}, w \in {None, Some(Bool(TRUE))}}
    \cup
    {[op |-> op, params |-> [NoParams EXCEPT !.with_result = w]] :
        op \in {"get", "put"}, w \in {None, Some(Bool(TRUE))}}
    \cup
    {[op |-> "scan", params |-> [NoParams EXCEPT !.limit = l]] :
        l \in {Some(String("5")), Some(WideInteger(1, 2))}}
    \cup
    {[op |-> "scan",
      params |-> [limit |-> Some(Integer(2)),
                  validation |-> Some(Vec(<< Integer(2), Integer(3), String("rows") >>)),
                  with_result |-> Some(Bool(FALSE))]],
     [op |-> "query",
      params |-> [NoParams EXCEPT !.validation = Some(Integer(2))]]}
    \cup
    (IF c.retry_number = 0
     THEN {[op |-> "query",
            params |-> [NoParams EXCEPT !.validation = Some(Vec(v))]] :
               v \in ValidationLists}
     ELSE {})

\* ------------------------------------------------------------------------
\* Steps of the executor
\* ------------------------------------------------------------------------

\* the context before any operation of the executor
NoWire ==
    [sends |-> 0, page_sends |-> 0, succeeded |-> 0,
     request |-> None, error |-> None, fetched |-> << >>, honest |-> TRUE]

NoStats == [started |-> 0, completed |-> << >>]

\* one iteration of the loop of handle_request, from the send to the arm
\* of the match taken for its answer
Iteration(limit, resp, duration, out) ==
    /\ req' = IF out.kind = "Ok"
              THEN Succeeded(Accumulated(req, duration, out.val))
              ELSE Failed(req, out.val)
    /\ stats' = IF req'.pc = "done"
                THEN complete_request(start_request(stats),
                                      req'.all_pages_duration,
                                      req'.total_item_count)
                ELSE start_request(stats)
    /\ wire' = Wire(wire, req, limit, resp, duration, out)

\* put, delete, update, get, query and scan of the script, up to the loop
\* of handle_request
StartRequest(op, params) ==
    /\ req.pc = "idle"
    /\ req' = [Started(op, params.validation, WithResult(params),
                       BuildLimit(op, params), BuildValidation(op, params))
                  EXCEPT !.limit = params.limit]
    /\ UNCHANGED << partition_row_presets, last, checked, ctx, wire, stats, calc, tasks >>

\* handle_request: `while current_attempt_num <= ctx.retry_number { .. }`
Attempt(resp, duration) ==
    /\ req.pc = "loop"
    /\ WithinBudget(req, ctx.retry_number)
    /\ wire.sends < MaxSends
    /\ Iteration(IF has_pagination(req.op)
                 THEN Some(PageSize(req, ctx.page_size)) ELSE None,
                 resp, duration,
                 into_output(req.op, resp, PageKey(req.token)))
    /\ UNCHANGED << partition_row_presets, last, checked, ctx, calc, tasks >>

\* handle_request: the loop is left, Err(query_retries_exceeded(..)) goes
\* through `?` to the caller of the operation
RetriesExceeded ==
    /\ req.pc = "loop"
    /\ ~WithinBudget(req, ctx.retry_number)
    /\ req' = [req EXCEPT
                 !.pc = "done",
                 !.handled = Some(Err(query_retries_exceeded(ctx.retry_number))),
                 !.result = Some(Err(query_retries_exceeded(ctx.retry_number)))]
    /\ UNCHANGED << partition_row_presets, last, checked, ctx, wire, stats, calc, tasks >>

\* ------------------------------------------------------------------------
\* Several handle_request executions on one context
\* ------------------------------------------------------------------------

\* The executions are futures polled by one scheduler: the one that runs
\* keeps running until it awaits the send or the backoff sleep, or returns.
\* tasks.running is the execution that runs (0: none), tasks.lock the holder
\* of the TryLock around ctx.stats (0: free), tasks.pc the position of each
\* execution, tasks.attempt its current_attempt_num and tasks.pages the
\* pages it got.
MaxWorkers == 2
MaxPages == 1
Workers == 1..MaxWorkers

NoTasks ==
    [pc |-> [w \in Workers |-> "idle"], attempt |-> [w \in Workers |-> 0],
     pages |-> [w \in Workers |-> 0], lock |-> 0, running |-> 0]


\* ------------------------------------------------------------------------
\* Specifications
\* ------------------------------------------------------------------------

Init ==
    /\ partition_row_presets = << >>
    /\ last = NoCall
    /\ checked \in BOOLEAN
    /\ ctx = [retry_number |-> 0, page_size |-> 1]
    /\ req = Idle
    /\ wire = NoWire
    /\ stats = NoStats
    /\ calc = NoCalc
    /\ tasks = NoTasks

\* a context on which presets are created and looked up in any order
Next ==
    \/ \E a \in SmallInputs :
          \E order \in OrdersOf(a.groups) :
              InitPreset(a.name, a.row_count, a.base, a.groups, order)
    \/ \E preset_name \in Names, idx \in StressIdx :
          LookupPartition(preset_name, idx)

Spec == Init /\ [][Next]_vars

\* a context on which one preset is created, then looked up
NextOne ==
    \/ /\ last.op = "none"
       /\ \E a \in OneInputs :
              \E order \in OrdersOf(a.groups) :
                  InitPreset(a.name, a.row_count, a.base, a.groups, order)
    \/ \E idx \in StressIdx : LookupPartition("foo", idx)

SpecOne == Init /\ [][NextOne]_vars

\* max_gcd_with_tail(n1, n2), called once
MaxGcdWithTail(n1, n2) ==
    /\ calc.fn = "none"
    /\ calc' = [fn |-> "max_gcd_with_tail", n1 |-> n1, n2 |-> n2,
                ret |-> max_gcd_with_tail(n1, n2)]
    /\ UNCHANGED << partition_row_presets, last, checked, ctx, req, wire, stats, tasks >>

NextGcd == \E n1 \in GcdArgs, n2 \in GcdArgs : MaxGcdWithTail(n1, n2)

SpecGcd == Init /\ [][NextGcd]_vars

\* variant: the guard is bound to a name that lives to the end of the block
GuardDropped_AtEndOfBlock(holder) == holder

\* the guard returned by try_lock() is a temporary of the statement: it is
\* dropped, and the lock released, when the statement ends
GuardDropped(holder) == 0

\* the first poll of the future
TaskPoll(w) ==
    /\ tasks.running = 0
    /\ tasks.pc[w] = "idle"
    /\ tasks' = [tasks EXCEPT !.running = w, !.pc[w] = "loop"]
    /\ UNCHANGED << partition_row_presets, last, checked, ctx, req, wire, stats, calc >>

\* `ctx.stats.try_lock().unwrap()`, before start_request in the loop and
\* before complete_request in the returning arms: None, and a panic of
\* unwrap, when the lock is held
TaskTryLock(w) ==
    /\ tasks.running = w
    /\ \/ tasks.pc[w] = "loop" /\ tasks.attempt[w] <= ctx.retry_number
       \/ tasks.pc[w] = "complete"
    /\ tasks' = IF tasks.lock # 0
                THEN [tasks EXCEPT !.pc[w] = "panicked"]
                ELSE [tasks EXCEPT !.lock = w,
                                   !.pc[w] = IF tasks.pc[w] = "loop"
                                             THEN "start_locked"
                                             ELSE "complete_locked"]
    /\ UNCHANGED << partition_row_presets, last, checked, ctx, req, wire, stats, calc >>

\* `.start_request();` then `current_builder.send().await`: the execution
\* is suspended until the answer is there
TaskStartRequest(w) ==
    /\ tasks.running = w
    /\ tasks.pc[w] = "start_locked"
    /\ stats' = start_request(stats)
    /\ tasks' = [tasks EXCEPT !.lock = GuardDropped(tasks.lock),
                              !.pc[w] = "awaiting_send", !.running = 0]
    /\ UNCHANGED << partition_row_presets, last, checked, ctx, req, wire, calc >>

\* the answer of the send: a page with a key to go on from ("page"), the
\* last page or the page that reaches the limit ("last"), or an error, on
\* which handle_retry_error(..).await sleeps
TaskResume(w, answer) ==
    /\ tasks.running = 0
    /\ tasks.pc[w] = "awaiting_send"
    /\ answer = "page" => tasks.pages[w] < MaxPages
    /\ tasks' = CASE answer = "page" ->
                       [tasks EXCEPT !.running = w, !.pc[w] = "loop",
                                     !.attempt[w] = 0, !.pages[w] = @ + 1]
                  [] answer = "last" ->
                       [tasks EXCEPT !.running = w, !.pc[w] = "complete",
                                     !.pages[w] = @ + 1]
                  [] answer = "error" ->
                       [tasks EXCEPT !.pc[w] = "awaiting_backoff"]
    /\ UNCHANGED << partition_row_presets, last, checked, ctx, req, wire, stats, calc >>

\* handle_retry_error is over: `current_attempt_num += 1; continue`
TaskWake(w) ==
    /\ tasks.running = 0
    /\ tasks.pc[w] = "awaiting_backoff"
    /\ tasks' = [tasks EXCEPT !.running = w, !.pc[w] = "loop", !.attempt[w] = @ + 1]
    /\ UNCHANGED << partition_row_presets, last, checked, ctx, req, wire, stats, calc >>

\* `.complete_request(all_pages_duration, total_item_count); return Ok(..)`
TaskCompleteRequest(w) ==
    /\ tasks.running = w
    /\ tasks.pc[w] = "complete_locked"
    /\ stats' = complete_request(stats, tasks.pages[w], 0)
    /\ tasks' = [tasks EXCEPT !.lock = GuardDropped(tasks.lock),
                              !.pc[w] = "done", !.running = 0]
    /\ UNCHANGED << partition_row_presets, last, checked, ctx, req, wire, calc >>

\* the loop is left: Err(query_retries_exceeded(..))
TaskRetriesExceeded(w) ==
    /\ tasks.running = w
    /\ tasks.pc[w] = "loop"
    /\ tasks.attempt[w] > ctx.retry_number
    /\ tasks' = [tasks EXCEPT !.pc[w] = "done", !.running = 0]
    /\ UNCHANGED << partition_row_presets, last, checked, ctx, req, wire, stats, calc >>

InitWorkers ==
    /\ partition_row_presets = << >>
    /\ last = NoCall
    /\ checked = TRUE
    /\ ctx \in Contexts
    /\ req = Idle
    /\ wire = NoWire
    /\ stats = NoStats
    /\ calc = NoCalc
    /\ tasks = NoTasks

NextWorkers ==
    \E w \in Workers :
        \/ TaskPoll(w)
        \/ TaskTryLock(w)
        \/ TaskStartRequest(w)
        \/ \E answer \in {"page", "last", "error"} : TaskResume(w, answer)
        \/ TaskWake(w)
        \/ TaskCompleteRequest(w)
        \/ TaskRetriesExceeded(w)

SpecWorkers == InitWorkers /\ [][NextWorkers]_vars


\* a context with its retry and page settings, on which one operation of
\* the executor runs
InitRequest ==
    /\ partition_row_presets = << >>
    /\ last = NoCall
    /\ checked = TRUE
    /\ ctx \in Contexts
    /\ req = Idle
    /\ wire = NoWire
    /\ stats = NoStats
    /\ calc = NoCalc
    /\ tasks = NoTasks

NextRequest ==
    \/ \E a \in RequestInputs(ctx) : StartRequest(a.op, a.params)
    \/ \E resp \in Responses, duration \in Durations : Attempt(resp, duration)
    \/ RetriesExceeded

SpecRequest == InitRequest /\ [][NextRequest]_vars

\* the server hands out a key to go on from for at most MaxTokens pages of
\* one request
MaxTokens == 2

\* the requests of the specification with fairness
TerminatingInputs ==
    {[op |-> "query", params |-> [NoParams EXCEPT !.limit = l]] :
        l \in {None, Some(Integer(2))}}
    \cup {[op |-> op, params |-> NoParams] : op \in {"scan", "get", "put"}}

\* one iteration of the loop of handle_request, with a server that stops
\* handing out keys after MaxTokens pages
AttemptOfFinitePages(resp) ==
    /\ req.pc = "loop"
    /\ WithinBudget(req, ctx.retry_number)
    /\ resp.more => PageKey(req.token) < MaxTokens
    /\ Iteration(IF has_pagination(req.op)
                 THEN Some(PageSize(req, ctx.page_size)) ELSE None,
                 resp, 1,
                 into_output(req.op, resp, PageKey(req.token)))
    /\ UNCHANGED << partition_row_presets, last, checked, ctx, calc, tasks >>

NextTerminates ==
    \/ \E a \in TerminatingInputs : StartRequest(a.op, a.params)
    \/ \E resp \in PageResponses(PageKey(req.token)) : AttemptOfFinitePages(resp)
    \/ RetriesExceeded

\* every send is answered and the loop goes on: an iteration that can be
\* made is made
SpecTerminates ==
    /\ InitRequest
    /\ [][NextTerminates]_vars
    /\ WF_vars(\E resp \in PageResponses(PageKey(req.token)) :
                   AttemptOfFinitePages(resp))
    /\ WF_vars(RetriesExceeded)


\* ------------------------------------------------------------------------
\* Properties
\* ------------------------------------------------------------------------

MaxPeriods == 2

RECURSIVE SeqSum(_)
SeqSum(s) == IF Len(s) = 0 THEN 0 ELSE s[1] + SeqSum(Tail(s))

\* the last call was a construction that returned Ok; its preset is stored
InitOk == last.op = "init" /\ last.status = "Ok"
LookupOk == last.op = "get" /\ last.status = "Ok"
StoredPreset == partition_row_presets[last.name]

RowsPerGroup(preset) ==
    [i \in 1..Len(preset.partition_groups) |-> preset.partition_groups[i].n_rows_per_group]

PartitionsPerGroup(preset) ==
    [i \in 1..Len(preset.partition_groups) |-> preset.partition_groups[i].n_partitions]

TotalPartitions(preset) == SeqSum(PartitionsPerGroup(preset))

\* the first partition index of group g: the partitions of the groups before it
Offset(preset, g) == SeqSum(SubSeq(PartitionsPerGroup(preset), 1, g - 1))

\* the group whose contiguous range of partition indexes contains p (0: none)
GroupOfPartition(preset, p) ==
    LET owns(g) == /\ Offset(preset, g) <= p
                   /\ p < Offset(preset, g) + preset.partition_groups[g].n_partitions
    IN  IF \E g \in 1..Len(preset.partition_groups) : owns(g)
        THEN CHOOSE g \in 1..Len(preset.partition_groups) : owns(g)
        ELSE 0

\* the resolution of every idx of one period
Hits(preset) ==
    {<< idx, get_partition_info(preset, idx) >> : idx \in 0..(preset.total_rows - 1)}

\* C1: a construction that returns Ok stores groups whose n_rows_per_group
\* sum to the requested row_count, and total_rows equals row_count, whether
\* the first tuple was grown, shrunk or left alone.  (Outcomes "Wrapped" and
\* "Saturated" hold counts near 2^64, which are not represented; nothing is
\* stated about them.)
C1_GroupsCoverRowCount ==
    InitOk =>
        /\ SeqSum(RowsPerGroup(StoredPreset)) = last.row_count
        /\ StoredPreset.total_rows = last.row_count

\* C1 witness: an accepted call that went through the shrink branch
C1_ShrinkCovered ==
    /\ InitOk
    /\ last.trace.branch = "shrink"
    /\ last.row_count >= 10
    /\ last.trace.adjusted[1].count > 0
    /\ SeqSum(RowsPerGroup(StoredPreset)) = last.row_count

\* C2: over one period, each partition index p is returned for exactly as
\* many idx as the n_rows_per_partition of the group p belongs to
C2_PartitionHitCounts ==
    InitOk =>
        LET preset == StoredPreset
            hits == Hits(preset)
        IN  \A p \in 0..(TotalPartitions(preset) - 1) :
                Cardinality({h \in hits : h[2].kind = "Ret" /\ h[2].idx = p})
                    = preset.partition_groups[GroupOfPartition(preset, p)].n_rows_per_partition

\* C2 witness: a lookup on a preset of several groups, one of them holding
\* partitions of more than one row
C2_LookupInSkewedPreset ==
    /\ LookupOk
    /\ Len(partition_row_presets[last.name].partition_groups) >= 3
    /\ partition_row_presets[last.name].total_rows > MaxStressIdx
    /\ last.ret[2] >= 2
    /\ Cardinality({h \in Hits(partition_row_presets[last.name]) :
                       h[2].idx = last.ret[1]}) = last.ret[2]

\* C3: every idx of one period resolves to a partition index below the
\* number of partitions, with a positive rows_num that is the
\* n_rows_per_partition of the group owning that index
C3_ResolvesInRange ==
    InitOk =>
        LET preset == StoredPreset
        IN  \A h \in Hits(preset) :
                /\ h[2].kind = "Ret"
                /\ h[2].idx \in 0..(TotalPartitions(preset) - 1)
                /\ h[2].rows_num > 0
                /\ h[2].rows_num =
                       preset.partition_groups[GroupOfPartition(preset, h[2].idx)]
                           .n_rows_per_partition

\* C3 witness: a lookup answered from a group that is not the first one
C3_LookupBeyondFirstGroup ==
    /\ LookupOk
    /\ GroupOfPartition(partition_row_presets[last.name], last.ret[1]) >= 2
    /\ last.ret[2] =
           partition_row_presets[last.name]
               .partition_groups[GroupOfPartition(partition_row_presets[last.name],
                                                  last.ret[1])].n_rows_per_partition

\* C4: for every idx of one period the walk returns from inside the loop:
\* no panic (no groups, no distributions, no match, division by zero) and
\* no subtraction below zero
C4_WalkNeverFalls ==
    InitOk =>
        /\ StoredPreset.partition_groups # << >>
        /\ Len(StoredPreset.row_distributions) = Len(StoredPreset.partition_groups)
        /\ \A idx \in 0..(StoredPreset.total_rows - 1) :
               get_partition_info(StoredPreset, idx).kind \notin {"Panic", "Overflow"}

\* C4 witness: a preset whose first group uses both cycle types and whose
\* last row of the period resolves
C4_BothCycleTypesWalked ==
    /\ InitOk
    /\ Len(StoredPreset.partition_groups) >= 2
    /\ StoredPreset.row_distributions[1][1].n_cycles > 0
    /\ StoredPreset.row_distributions[1][2].n_cycles > 0
    /\ get_partition_info(StoredPreset, StoredPreset.total_rows - 1).kind = "Ret"

\* C5: the mapping has period total_rows
C5_Periodic ==
    InitOk =>
        \A idx \in 0..(StoredPreset.total_rows - 1), k \in 1..MaxPeriods :
            get_partition_info(StoredPreset, idx + k * StoredPreset.total_rows)
                = get_partition_info(StoredPreset, idx)

\* C5 witness: a lookup past the first period of a preset of several groups
C5_LookupInLaterPeriod ==
    /\ LookupOk
    /\ Len(partition_row_presets[last.name].partition_groups) >= 2
    /\ \A g \in 1..Len(partition_row_presets[last.name].partition_groups) :
           partition_row_presets[last.name].partition_groups[g].n_rows_per_group > 0
    /\ last.idx >= partition_row_presets[last.name].total_rows
    /\ get_partition_info(partition_row_presets[last.name],
                          last.idx - partition_row_presets[last.name].total_rows).idx
           = last.ret[1]

\* C6: the idx of one period that resolve to a group visit its partitions
\* round-robin, in increasing idx order, from the first partition of the
\* group; a preset of one group maps idx to (idx mod total_rows) mod
\* n_partitions
C6_RoundRobinWithinGroup ==
    InitOk =>
        LET preset == StoredPreset
            in_group == {<< h[1], h[2].idx, GroupOfPartition(preset, h[2].idx) >> :
                            h \in Hits(preset)}
        IN  /\ \A h \in in_group :
                   /\ h[3] # 0
                   /\ h[2] = Offset(preset, h[3])
                               + (Cardinality({x \in in_group : x[3] = h[3] /\ x[1] < h[1]})
                                    % preset.partition_groups[h[3]].n_partitions)
            /\ Len(preset.partition_groups) = 1 =>
                   \A idx \in 0..(2 * preset.total_rows - 1) :
                       get_partition_info(preset, idx).idx
                           = (idx % preset.total_rows) % preset.partition_groups[1].n_partitions

\* C6 witness: a group of several partitions, interleaved with another group
\* through several cycles of type 1, resumes its round after a row of the
\* other group
C6_InterleavedRoundRobin ==
    /\ InitOk
    /\ Len(StoredPreset.partition_groups) >= 2
    /\ StoredPreset.partition_groups[1].n_partitions >= 2
    /\ StoredPreset.partition_groups[1].n_rows_per_partition >= 2
    /\ StoredPreset.row_distributions[1][1].n_cycles >= 2
    /\ \E idx \in 2..(StoredPreset.total_rows - 1) :
           /\ get_partition_info(StoredPreset, idx - 2).idx
                  < StoredPreset.partition_groups[1].n_partitions
           /\ get_partition_info(StoredPreset, idx - 1).idx
                  >= StoredPreset.partition_groups[1].n_partitions
           /\ get_partition_info(StoredPreset, idx).idx
                  = (get_partition_info(StoredPreset, idx - 2).idx + 1)
                        % StoredPreset.partition_groups[1].n_partitions

\* the comma-separated elements of a group spec, spaces stripped
ElementsOf(groups) ==
    Split(RemoveSpaces(IF groups = << >> THEN DefaultGroups ELSE groups), ",")

\* an element of the form a:b, with exactly one ':'
WellFormedPair(element) == Len(Split(element, ":")) = 2

\* a well-formed pair whose two parts both parse as numbers
NumericPair(element) ==
    /\ WellFormedPair(element)
    /\ ParseF64(Split(element, ":")[1]) # ParseError
    /\ ParseF64(Split(element, ":")[2]) # ParseError

PercentOf(element) == ParseF64(Split(element, ":")[1])
MultiplierOf(element) == ParseF64(Split(element, ":")[2])

RECURSIVE PercentTotal(_)
PercentTotal(elements) ==
    IF Len(elements) = 0 THEN RInt(0)
    ELSE RAdd(PercentOf(elements[1]), PercentTotal(Tail(elements)))

\* the arguments of call c are among those the construction has to refuse
MustFail(c) ==
    LET elements == ElementsOf(c.groups)
    IN  \/ c.name = ""
        \/ c.row_count < 1
        \/ c.base < 1
        \/ \E i \in 1..Len(elements) :
               WellFormedPair(elements[i]) /\ ~NumericPair(elements[i])
        \/ /\ \A i \in 1..Len(elements) : NumericPair(elements[i])
           /\ RLess(<< 1, 100 >>, RAbs(RSub(PercentTotal(elements), RInt(100))))

\* C7: a construction called with an empty name, a row_count or a base
\* below 1, a percent or multiplier that is not a number, or percents whose
\* sum is further than 0.01 from 100, returns an error and leaves the
\* registry as it was
C7_RefusedAndRegistryKept ==
    [][(last'.op = "init" /\ MustFail(last'))
          => (last'.status = "Err" /\ partition_row_presets' = partition_row_presets)]_vars

\* C7 witness: percents summing to 99.989 were refused while the registry
\* held a preset
C7_PercentSumRefused ==
    /\ last.op = "init"
    /\ last.status = "Err"
    /\ last.cause = "summary of partition percentage must be '100'"
    /\ \A i \in 1..Len(ElementsOf(last.groups)) : NumericPair(ElementsOf(last.groups)[i])
    /\ PercentTotal(ElementsOf(last.groups)) = << 99989, 1000 >>
    /\ DOMAIN partition_row_presets # {}

\* C8 (as stated): a group spec with an element that is not of the form
\* percent:multiplier makes the construction return an error
C8_MalformedPairRefused ==
    (/\ last.op = "init"
     /\ \E i \in 1..Len(ElementsOf(last.groups)) :
            ~WellFormedPair(ElementsOf(last.groups)[i]))
        => last.status = "Err"

\* C9 (as stated): a group spec with two pairs of equal percent and equal
\* multiplier makes the construction return an error, whichever comes first
C9_DuplicatePairRefused ==
    (/\ last.op = "init"
     /\ LET elements == ElementsOf(last.groups)
        IN  \E i, j \in 1..Len(elements) :
                /\ i < j
                /\ NumericPair(elements[i])
                /\ NumericPair(elements[j])
                /\ PercentOf(elements[i]) = PercentOf(elements[j])
                /\ MultiplierOf(elements[i]) = MultiplierOf(elements[j]))
        => last.status = "Err"

\* the positions of the tuples of partition size s
OfSize(partitions, s) == {i \in 1..Len(partitions) : partitions[i].size = s}

\* C10: a nonzero shortfall s left by the grow/shrink step is absorbed by
\* one change: the first tuple of size s in descending (count, size) order
\* gets one more partition and no tuple is added, or, when no tuple has
\* size s, the group {s, 1, s} is added; after a grow step s is smaller
\* than the partition size of the grown tuple
C10_ShortfallAbsorbedOnce ==
    (InitOk /\ last.trace.shortfall > 0) =>
        LET s == last.trace.shortfall
            adjusted == last.trace.adjusted
            absorbed == last.trace.absorbed
            same == OfSize(adjusted, s)
        IN  /\ IF same # {}
               THEN \E c \in same :
                       /\ \A o \in same : ~PartitionBefore(adjusted[o], adjusted[c])
                       /\ absorbed = [adjusted EXCEPT ![c].count = @ + 1]
               ELSE /\ absorbed = Append(adjusted, [count |-> 1, size |-> s])
                    /\ \E g \in 1..Len(StoredPreset.partition_groups) :
                           StoredPreset.partition_groups[g] =
                               [n_rows_per_group |-> s, n_partitions |-> 1,
                                n_rows_per_partition |-> s]
            /\ last.trace.branch = "grow" => s < adjusted[1].size

\* C10 witness: after a grow step the shortfall has the size of two
\* existing tuples of different counts, and the one of the larger count
\* takes it
C10_ShortfallJoinsGroup ==
    /\ InitOk
    /\ last.trace.branch = "grow"
    /\ last.trace.shortfall > 0
    /\ \E i, j \in OfSize(last.trace.adjusted, last.trace.shortfall) :
           /\ last.trace.adjusted[i].count > last.trace.adjusted[j].count
           /\ last.trace.absorbed[i].count = last.trace.adjusted[i].count + 1
    /\ Len(last.trace.absorbed) = Len(last.trace.adjusted)

\* two calls whose pairs have, position by position, the same percent and
\* the same product base * multiplier
SameProducts(base1, groups1, base2, groups2) ==
    LET e1 == ElementsOf(groups1)
        e2 == ElementsOf(groups2)
    IN  /\ Len(e1) = Len(e2)
        /\ \A i \in 1..Len(e1) :
               /\ NumericPair(e1[i])
               /\ NumericPair(e2[i])
               /\ PercentOf(e1[i]) = PercentOf(e2[i])
               /\ RMul(RInt(base1), MultiplierOf(e1[i]))
                      = RMul(RInt(base2), MultiplierOf(e2[i]))

\* the preset stored by the last call is also what another call gives
SamePresetAs(base2, groups2) ==
    \A order \in OrdersOf(groups2) :
        LET other == InitOutcome(last.name, last.row_count, base2, groups2, order, checked)
        IN  /\ other.status = "Ok"
            /\ other.preset.partition_groups = StoredPreset.partition_groups
            /\ \A idx \in 0..(StoredPreset.total_rows - 1) :
                   get_partition_info(other.preset, idx)
                       = get_partition_info(StoredPreset, idx)

C20_UnknownNameIsTypedError ==
    (last.op = "get" /\ last.name \notin DOMAIN partition_row_presets)
        => (last.status = "Err" /\ last.cause = "PartitionRowPresetNotFound")

\* ------------------------------------------------------------------------
\* Properties of the executor
\* ------------------------------------------------------------------------

\* the operation went through handle_request and handle_request returned
Handled == req.pc = "done" /\ req.handled # None

HandledOk == Handled /\ req.handled[1].kind = "Ok"

HandledErr == Handled /\ req.handled[1].kind = "Err"

\* the last answer was a page
PageCameBack == wire.sends > 0 /\ wire.error = None

\* the request is paginated and its caller declared a limit
Limited == req.pc \in {"loop", "done"} /\ req.query_limit # None

\* C12: with a declared limit L and answers that hold no more items than
\* asked for, every page is asked with limit min(page_size, L - items so
\* far), the accumulated count never exceeds L, and handle_request returns
\* as soon as the count reaches L, whether or not a token came back
C12_LimitBoundsPages ==
    Limited =>
        /\ wire.request # None =>
              wire.request[1].limit =
                  Some(Min(ctx.page_size,
                           req.query_limit[1] - wire.request[1].items_so_far))
        /\ wire.honest =>
              /\ req.total_item_count <= req.query_limit[1]
              /\ Len(req.all_items) <= req.query_limit[1]
        /\ (req.pc = "loop" /\ req.token # None)
              => req.total_item_count < req.query_limit[1]
        /\ (req.total_item_count >= req.query_limit[1] /\ PageCameBack)
              => HandledOk /\ req.handled[1].val = req.all_items

\* limit 5 and page_size 3: a page of 3, then a page asked with limit 2 that
\* comes back full with a token, and exactly 5 items are returned
C12_FiveItemsInTwoPages ==
    /\ HandledOk
    /\ req.query_limit = Some(5)
    /\ ctx.page_size = 3
    /\ wire.honest
    /\ wire.sends = 2
    /\ wire.request[1].limit = Some(2)
    /\ wire.request[1].items_so_far = 3
    /\ req.token # None
    /\ Len(req.handled[1].val) = 5

\* a send was made in this step
Sending == wire'.sends = wire.sends + 1

\* C13: an attempt that fails leaves the token, the items, the count and the
\* duration as they were and adds one to the attempt counter, and the send
\* after it asks for the same page; a page that comes back with a token on
\* a paginated request and does not end the request sets the counter to 0
C13_FailedAttemptKeepsPage ==
    [][Sending =>
          /\ wire'.error # None =>
                /\ req'.token = req.token
                /\ req'.all_items = req.all_items
                /\ req'.total_item_count = req.total_item_count
                /\ req'.all_pages_duration = req.all_pages_duration
                /\ req'.current_attempt_num = req.current_attempt_num + 1
          /\ wire.error # None =>
                /\ wire'.request[1].token = wire.request[1].token
                /\ wire'.request[1].items_so_far = wire.request[1].items_so_far
          /\ (wire'.error = None /\ req'.pc = "loop") =>
                /\ has_pagination(req.op)
                /\ req'.token # None
                /\ req'.current_attempt_num = 0]_vars

\* a page failed once, then came back with a token: the next page starts
\* with a counter of 0
C13_RetriedPageThenNextPage ==
    /\ req.pc = "loop"
    /\ PageCameBack
    /\ wire.page_sends = 2
    /\ req.token # None
    /\ req.total_item_count > 0
    /\ req.current_attempt_num = 0

\* C14 (as stated): the sends made for one page, with no page coming back
\* in between, are at most retry_number
C14_SendsWithinRetryNumber == wire.page_sends <= ctx.retry_number

\* C14 (amended): the sends made for one page, with no page coming back in
\* between, are at most retry_number + 1, the first attempt and retry_number
\* retries
C14_SendsWithinRetriesPlusOne == wire.page_sends <= ctx.retry_number + 1

\* a page was sent retry_number + 1 times, each send failed, and the
\* request ended there
C14_BudgetUsedUp ==
    /\ HandledErr
    /\ ctx.retry_number >= 1
    /\ wire.page_sends = ctx.retry_number + 1
    /\ wire.error # None

\* the attempt counter of the page went over retry_number
Exhausted == req.pc = "loop" /\ req.current_attempt_num > ctx.retry_number

\* C15: once the attempt counter of a page is over retry_number, the next
\* step sends nothing and returns QueryRetriesExceeded with retry_number in
\* its message, to handle_request's caller and to the caller of the
\* operation, whatever was accumulated; handle_request fails in no other way
C15_NoSendAfterBudget ==
    [][/\ Exhausted =>
             /\ ~Sending
             /\ req'.pc = "done"
             /\ req'.handled # None
             /\ req'.handled[1].kind = "Err"
       /\ (req'.pc = "done" /\ req'.handled # None /\ req'.handled[1].kind = "Err") =>
             /\ Exhausted
             /\ req'.handled[1].val.kind = "QueryRetriesExceeded"
             /\ req'.handled[1].val.message =
                   << "Max retry attempts (", ctx.retry_number, ") reached" >>
             /\ req'.result = req'.handled
             /\ req'.all_items = req.all_items]_vars

\* a first page was accumulated, the second used up its attempts, and the
\* caller got the error without the items
C15_ItemsDroppedOnExhaustion ==
    /\ HandledErr
    /\ ctx.retry_number >= 1
    /\ req.handled[1].val.kind = "QueryRetriesExceeded"
    /\ Len(req.all_items) > 0
    /\ req.token # None
    /\ req.result = req.handled

\* C16: complete_request is called once when handle_request returns Ok,
\* with the time of the attempts that succeeded and the number of items
\* accumulated, and is not called before, nor when handle_request fails
C16_StatsOfSuccessfulWork ==
    /\ HandledOk =>
          /\ Len(stats.completed) = 1
          /\ stats.completed[1] = << wire.succeeded, Len(req.all_items) >>
          /\ req.total_item_count = Len(req.all_items)
          /\ stats.started = wire.sends
    /\ ~HandledOk => stats.completed = << >>

\* two pages came back, the second after a failed attempt, and the request
\* returned its items
C16_CommittedAfterRetry ==
    /\ HandledOk
    /\ wire.sends = 3
    /\ wire.page_sends = 2
    /\ wire.request[1].token # None
    /\ Len(req.all_items) >= 2
    /\ stats.completed[1][1] >= 2

\* C17 (as stated): an attempt whose answer cannot be converted fails with
\* a ConversionError that ends the request at once, the error going to the
\* caller, with no other send of the page
C17_ConversionErrorSurfaced ==
    wire.error = Some("ConversionError") =>
        /\ req.pc = "done"
        /\ req.result # None
        /\ req.result[1].kind = "Err"
        /\ req.result[1].val.kind = "ConversionError"
        /\ wire.page_sends = 1

\* expected_min <= n <= expected_max, as numbers below 2^64
InRange(n, validation) ==
    /\ validation.expected_min.wraps = 0
    /\ validation.expected_min.low <= n
    /\ validation.expected_max.wraps = 1 \/ n <= validation.expected_max.low

\* query or scan was given a validation spec and handle_request returned
\* its items
Validated == HandledOk /\ req.validation # None

\* C18: with a validation spec, query and scan succeed when the number n of
\* accumulated items lies in [expected_min, expected_max], both included,
\* and else return a ValidationError whose message holds n, both bounds and
\* the custom message; the request is over either way, nothing is sent again
C18_CountWithinBoundsOrError ==
    /\ Validated =>
          /\ req.result # None
          /\ IF InRange(Len(req.all_items), req.validation[1])
             THEN req.result[1].kind = "Ok"
             ELSE /\ req.result[1].kind = "Err"
                  /\ req.result[1].val.kind = "ValidationError"
                  /\ req.result[1].val.message =
                        << OpName(req.op), " returned ", U64(Len(req.all_items)),
                           " items, expected between ",
                           req.validation[1].expected_min, " and ",
                           req.validation[1].expected_max, " ",
                           req.validation[1].custom_err_msg >>
    /\ (req.result # None /\ req.result[1].kind = "Err"
          /\ req.result[1].val.kind = "ValidationError") =>
          /\ Validated
          /\ PageCameBack
          /\ Len(stats.completed) = 1

\* the range [10, 10] and 8 items: a ValidationError that holds 8, 10, 10
C18_EightOfTen ==
    /\ Validated
    /\ req.validation[1].expected_min = U64(10)
    /\ req.validation[1].expected_max = U64(10)
    /\ Len(req.all_items) = 8
    /\ req.result[1].kind = "Err"
    /\ req.result[1].val.message[3] = U64(8)
    /\ req.result[1].val.message[5] = U64(10)
    /\ req.result[1].val.message[7] = U64(10)

\* a u64 that is the number n
NumberIs(u, n) == u.wraps = 0 /\ u.low = n

\* the validation spec made of the list is the range [min, max] with msg
SpecIs(validation, min, max, msg) ==
    /\ validation # None
    /\ NumberIs(validation[1].expected_min, min)
    /\ NumberIs(validation[1].expected_max, max)
    /\ validation[1].custom_err_msg = msg

\* the list was refused: no validation spec, an error to the caller
Refused ==
    /\ req.validation = None
    /\ req.pc = "done"
    /\ req.result # None
    /\ req.result[1].kind = "Err"
    /\ req.result[1].val.kind = "BadInput"

TypesOf(list) == [i \in 1..Len(list) |-> list[i].type]

\* what C19 says of a list
ShapeGivesSpec(list, validation) ==
    IF TypesOf(list) = << "Integer" >>
    THEN SpecIs(validation, list[1].val, list[1].val, "")
    ELSE IF TypesOf(list) = << "Integer", "Integer" >>
    THEN SpecIs(validation, list[1].val, list[2].val, "")
    ELSE IF TypesOf(list) = << "Integer", "String" >>
    THEN SpecIs(validation, list[1].val, list[1].val, list[2].val)
    ELSE IF TypesOf(list) = << "Integer", "Integer", "String" >>
    THEN SpecIs(validation, list[1].val, list[2].val, list[3].val)
    ELSE Refused

\* C19 (as stated): [n] gives min = max = n without message, [min, max]
\* that range without message, [n, msg] min = max = n with msg, [min, max,
\* msg] the range with msg, and every other list is refused with an error
C19_ShapeDecidesSpec ==
    (req.pc # "idle" /\ req.args # None /\ req.args[1].type = "Vec")
        => ShapeGivesSpec(req.args[1].val, req.validation)

\* ------------------------------------------------------------------------
\* Properties of the registry and of stored presets
\* ------------------------------------------------------------------------

\* the presets a call with the arguments of c can build
BuiltFrom(c) ==
    {InitOutcome(c.name, c.row_count, c.base, c.groups, order, checked).preset :
        order \in OrdersOf(c.groups)}

\* C21: a construction that returns Ok adds its name to the registry with
\* the preset built from its own arguments and leaves the preset of every
\* other name as it was; no other step changes the registry, which starts
\* empty, so a name never constructed is absent
C21_PresetsIndependent ==
    [][IF last'.op = "init" /\ last'.status = "Ok"
       THEN /\ DOMAIN partition_row_presets' =
                   DOMAIN partition_row_presets \cup {last'.name}
            /\ partition_row_presets'[last'.name] \in BuiltFrom(last')
            /\ \A n \in DOMAIN partition_row_presets \ {last'.name} :
                   partition_row_presets'[n] = partition_row_presets[n]
       ELSE partition_row_presets' = partition_row_presets]_vars

\* two names hold different presets, the second stored after the first
C21_TwoPresetsSideBySide ==
    /\ InitOk
    /\ DOMAIN partition_row_presets = {"foo", "bar"}
    /\ partition_row_presets["foo"] # partition_row_presets["bar"]
    /\ partition_row_presets["foo"].total_rows > 0
    /\ partition_row_presets["bar"].total_rows > 0

\* C22: a stored preset has groups of n_partitions >= 1 partitions with
\* n_rows_per_group = n_partitions * n_rows_per_partition, in non-increasing
\* order of n_rows_per_group, total_rows is the sum of n_rows_per_group, and
\* row_distributions has one pair per group
C22_StoredPresetWellFormed ==
    InitOk =>
        LET groups == StoredPreset.partition_groups
        IN  /\ \A g \in 1..Len(groups) :
                  /\ groups[g].n_partitions >= 1
                  /\ groups[g].n_rows_per_group =
                         groups[g].n_partitions * groups[g].n_rows_per_partition
            /\ \A g \in 1..(Len(groups) - 1) :
                  groups[g].n_rows_per_group >= groups[g + 1].n_rows_per_group
            /\ StoredPreset.total_rows = SeqSum(RowsPerGroup(StoredPreset))
            /\ Len(StoredPreset.row_distributions) = Len(groups)
            /\ DOMAIN StoredPreset.row_distributions = DOMAIN groups
            /\ \A g \in 1..Len(groups) :
                  Len(StoredPreset.row_distributions[g]) = 2

\* three groups, the one of most rows first although it has the fewest
\* partitions
C22_MostRowsFirst ==
    /\ InitOk
    /\ Len(StoredPreset.partition_groups) >= 3
    /\ StoredPreset.partition_groups[1].n_rows_per_group >
           StoredPreset.partition_groups[2].n_rows_per_group
    /\ StoredPreset.partition_groups[1].n_partitions <
           StoredPreset.partition_groups[2].n_partitions
    /\ StoredPreset.partition_groups[3].n_rows_per_group > 0

\* the rows of the groups stored after group g
RowsAfter(preset, g) ==
    SeqSum(SubSeq(RowsPerGroup(preset), g + 1, Len(preset.partition_groups)))

\* C23: the two cycle types of a group give the group its own rows on the
\* left and the rows of the groups after it on the right, so together the
\* rows of the group and of all later groups; the last group has nothing
\* on the right
C23_CyclesConserveRows ==
    InitOk =>
        \A g \in 1..Len(StoredPreset.partition_groups) :
            LET type1 == StoredPreset.row_distributions[g][1]
                type2 == StoredPreset.row_distributions[g][2]
                own == StoredPreset.partition_groups[g].n_rows_per_group
                other_rows == RowsAfter(StoredPreset, g)
            IN  /\ type1.n_cycles * type1.n_rows_for_left
                       + type2.n_cycles * type2.n_rows_for_left = own
                /\ type1.n_cycles * type1.n_rows_for_right
                       + type2.n_cycles * type2.n_rows_for_right = other_rows
                /\ type1.n_rows_for_all_cycles + type2.n_rows_for_all_cycles
                       = own + other_rows
                /\ g = Len(StoredPreset.partition_groups) =>
                       /\ other_rows = 0
                       /\ type1.n_rows_for_right * type1.n_cycles = 0
                       /\ type2.n_rows_for_right * type2.n_cycles = 0

\* a first group whose rows are split with a tail: cycles of both types,
\* those of type 1 one row longer on the left, and later groups to serve
C23_TailOnTheLeft ==
    /\ InitOk
    /\ Len(StoredPreset.partition_groups) >= 2
    /\ StoredPreset.row_distributions[1][1].n_cycles >= 1
    /\ StoredPreset.row_distributions[1][2].n_cycles >= 1
    /\ StoredPreset.row_distributions[1][1].n_rows_for_left =
           StoredPreset.row_distributions[1][2].n_rows_for_left + 1
    /\ StoredPreset.row_distributions[1][2].n_rows_for_right >= 1

\* C24: max_gcd_with_tail(n1, n2) = (g, (m1, t1), (m2, t2)) has at most
\* one tail, t1 <= n1/100, t2 <= n2/100, m1*g + t1 = n1, m2*g + t2 = n2,
\* g >= gcd(n1, n2), and t1 + t2 < g when g > 0: g - t1 - t2 does not go
\* below zero, and is at least 1 when n1 > 0
C24_TailsBelowGcd ==
    calc.fn = "max_gcd_with_tail" =>
        LET g == calc.ret[1]
            m1 == calc.ret[2][1]
            t1 == calc.ret[2][2]
            m2 == calc.ret[3][1]
            t2 == calc.ret[3][2]
        IN  /\ t1 = 0 \/ t2 = 0
            /\ t1 >= 0 /\ t1 <= calc.n1 \div 100
            /\ t2 >= 0 /\ t2 <= calc.n2 \div 100
            /\ m1 * g + t1 = calc.n1
            /\ m2 * g + t2 = calc.n2
            /\ g >= gcd(calc.n1, calc.n2)
            /\ g > 0 => t1 + t2 < g
            /\ g - t1 - t2 >= 0
            /\ calc.n1 > 0 => g - t1 - t2 >= 1

\* 302 and 3: two rows of the first number are left as a tail, the other
\* 300 go with the 3 in 3 cycles
C24_TailOfTwo ==
    /\ calc.fn = "max_gcd_with_tail"
    /\ calc.n1 = 302
    /\ calc.n2 = 3
    /\ calc.ret = << 3, << 100, 2 >>, << 1, 0 >> >>


\* C25 (as stated): an input that passes the argument checks (non-empty name,
\* row_count >= 1, base >= 1, numeric pairs with positive multipliers) is
\* sized and reconciled without an arithmetic fault: the call ends with Ok or
\* with the error of the percent sum, never with a division by zero or an
\* unsigned underflow
C25_NoArithmeticFault ==
    (/\ last.op = "init"
     /\ last.name # ""
     /\ last.row_count >= 1
     /\ last.base >= 1
     /\ \A i \in 1..Len(ElementsOf(last.groups)) :
            /\ NumericPair(ElementsOf(last.groups)[i])
            /\ RLess(RInt(0), MultiplierOf(ElementsOf(last.groups)[i])))
        => last.status \in {"Ok", "Err"}


\* C26 (as stated): the stored preset does not depend on the iteration order
\* of the parsed pair map: after a successful call, the call with the same
\* arguments under every other iteration order builds the preset that was
\* stored, partition groups and row distributions alike
C26_SameForEveryOrder ==
    (last.op = "init" /\ last.status = "Ok")
        => \A order \in OrdersOf(last.groups) :
               InitOutcome(last.name, last.row_count, last.base, last.groups,
                           order, checked).preset
                   = partition_row_presets[last.name]


\* C27: the lock around the stats sink is never held while an execution is
\* suspended: it is held only by the execution that runs, between its
\* try_lock and the end of the start_request or complete_request statement,
\* and no try_lock of several executions sharing one context fails
C27_LockNeverAcrossAwait ==
    /\ \A w \in Workers : tasks.pc[w] # "panicked"
    /\ tasks.running = 0 => tasks.lock = 0
    /\ tasks.lock # 0 =>
           /\ tasks.lock = tasks.running
           /\ tasks.pc[tasks.lock] \in {"start_locked", "complete_locked"}

\* C27 witness: one execution is suspended in its send while another one,
\* which was started after it, takes the lock
C27_LockTakenWhileAnotherSends ==
    \E v, w \in Workers :
        /\ tasks.pc[v] = "awaiting_send"
        /\ tasks.pc[w] = "complete_locked"
        /\ tasks.lock = w
        /\ stats.started >= 2


\* C28: when the server hands out a key to go on from for finitely many
\* pages only, a request that entered the loop of handle_request ends, with
\* Ok or with QueryRetriesExceeded; a request without pagination is never
\* given a page size or a key, and it ends with Ok at its first send that
\* succeeds
C28_Terminates ==
    /\ (req.pc = "loop") ~>
           (/\ req.pc = "done"
            /\ req.handled # None
            /\ \/ req.handled[1].kind = "Ok"
               \/ req.handled[1].val.kind = "QueryRetriesExceeded")
    /\ [](req.op \in Operations \ Paginated /\ wire.sends > 0 =>
              /\ wire.request[1].limit = None
              /\ wire.request[1].token = None
              /\ wire.error = None =>
                     req.pc = "done" /\ req.handled[1].kind = "Ok")

\* C28 witness: a request ended with Ok after the last key the server
\* hands out was used, the last page having been sent more than once
C28_EndedAfterLastToken ==
    /\ req.pc = "done"
    /\ req.handled # None
    /\ req.handled[1].kind = "Ok"
    /\ wire.request[1].token = Some(MaxTokens)
    /\ wire.page_sends >= 2


\* C29: the items a request returns with Ok are the items of the answers
\* that succeeded, in the order the answers came; the items gathered are in
\* the order of the pages and no item of a page is there twice, however
\* often a page was sent again; and the send of a page goes with the key the
\* answer of the page before it gave, the first page with none
C29_ItemsInFetchOrder ==
    /\ (req.pc = "done" /\ req.handled # None /\ req.handled[1].kind = "Ok")
           => req.handled[1].val = wire.fetched
    /\ \A p, q \in 1..Len(req.all_items) :
           p < q => \/ req.all_items[p][1] < req.all_items[q][1]
                    \/ /\ req.all_items[p][1] = req.all_items[q][1]
                       /\ req.all_items[p][2] < req.all_items[q][2]
    /\ (has_pagination(req.op) /\ wire.request # None)
           => LET before == wire.succeeded - (IF wire.error = None THEN 1 ELSE 0)
              IN  wire.request[1].token = IF before = 0 THEN None ELSE Some(before)

\* C29 witness: a request returned the items of two pages, one of its sends
\* having failed
C29_TwoPagesAndARetry ==
    /\ req.pc = "done"
    /\ req.handled # None
    /\ req.handled[1].kind = "Ok"
    /\ \E p, q \in 1..Len(req.handled[1].val) :
           req.handled[1].val[p][1] = 0 /\ req.handled[1].val[q][1] = 1
    /\ wire.sends > wire.succeeded


\* C30 (as stated): query and scan refuse malformed options before any
\* send: a `limit` that is not an integer or does not fit i32, and a
\* `validation` list that extract_validation_args refuses, end the
\* operation with BadInput, nothing sent and nothing counted
C30_MalformedOptionsRefused ==
    (/\ has_pagination(req.op)
     /\ \/ /\ req.limit # None
           /\ \/ req.limit[1].type # "Integer"
              \/ req.limit[1].wraps # 0
        \/ /\ req.args # None
           /\ req.args[1].type = "Vec"
           /\ extract_validation_args(req.args[1].val).kind = "Err")
        => /\ req.pc = "done"
           /\ req.result # None
           /\ req.result[1].kind = "Err"
           /\ req.result[1].val.kind = "BadInput"
           /\ wire.sends = 0
           /\ stats = NoStats

====
